---- MODULE Spec2Model ----
(***************************************************************************)
(* Resolver and lock generator of PPM (src/Resolver-lib/Importresolver.py, *)
(* the Resolver class of the second entry point, lines 403-955) and the    *)
(* verifier it generates.                                                  *)
(*                                                                         *)
(* Abstractions of the collaborators:                                      *)
(*  - a PEP 440 version is a number 1..MaxVer ordered as the versions are; *)
(*    the even ones are prereleases;                                       *)
(*  - a specifier is one clause  op ver  with op in "", ">=", "<=", "==";  *)
(*  - a marker is known by how it evaluates on this host;                  *)
(*  - a file's bytes are a label "X", "Y" or "partial", and sha256 maps    *)
(*    the labels to distinct digests "dX", "dY", "dP";                     *)
(*  - a wheel filename is the record of what parse_wheel_filename reads    *)
(*    from it: project, version, tag set.                                  *)
(***************************************************************************)
EXTENDS Integers, Sequences, FiniteSets, TLC

\* ---------------------------------------------------------------- bounds
\* versions an index lists, requirements on the command line, Requires-Dist lines
\* read from one wheel, anchors on one listing page
MaxVer == 3
MaxLines == 1
MaxAnchors == 1
\* the same for the runs that follow the dependency graph, and for the runs that
\* choose among the artifacts of one project
MaxGraphLines == 2
MaxListed == 2
\* context keys of the memory server, and starts of main on one project root
MaxKeys == 2
MaxPasses == 3
\* calls of MemoryController.write, and ticks of the clock its promises expire by
MaxWrites == 2
MaxClock == 1

\* ------------------------------------------------------------- universes
\* the canonical names, in lexicographic order
NameOrder == <<"a", "b", "c">>
Names == {NameOrder[i] : i \in 1..Len(NameOrder)}
RawNames == Names \cup {"A"}
Ops == {"", ">=", "<=", "=="}
Markers == {"none", "true", "false", "error"}
Versions == 1..MaxVer
Contents == {"X", "Y", "partial"}
None == "None"

\* packaging.utils.canonicalize_name on the spellings of RawNames
canonicalize_name(n) == IF n = "A" THEN "a" ELSE n

\* packaging.version.Version.is_prerelease
is_prerelease(v) == v % 2 = 0

\* hashlib.sha256 over the bytes of a file: one digest per content, no collisions
sha256_file(bytes) ==
  CASE bytes = "X" -> "dX"
    [] bytes = "Y" -> "dY"
    [] OTHER -> "dP"

\* the host's tags, best first (packaging.tags.sys_tags), and a tag the host lacks
env_tags == <<"cp311-cp311-linux", "py3-none-any">>
ForeignTag == "cp311-cp311-win"
AllTags == {env_tags[i] : i \in 1..Len(env_tags)} \cup {ForeignTag}

\* packaging.requirements.Requirement: name, specifier (one clause or none), marker
Requirement == {r \in [name : RawNames, op : Ops, ver : 0..MaxVer, marker : Markers] :
                  (r.op = "") <=> (r.ver = 0)}

\* marker_allows with `except Exception: return True`: C10 does not hold of it
marker_allows_unless_false(marker) == marker # "false"

marker_allows(marker) ==
  IF marker = "none" THEN TRUE
  ELSE IF marker = "true" THEN TRUE
  ELSE FALSE

\* SpecifierSet.contains(v, prereleases=True): the version range alone
in_range(req, v) ==
  CASE req.op = ">=" -> v >= req.ver
    [] req.op = "<=" -> v <= req.ver
    [] req.op = "==" -> v = req.ver
    [] OTHER -> TRUE

\* SpecifierSet.prereleases: a clause names a prerelease
specifier_prereleases(req) == req.op # "" /\ is_prerelease(req.ver)

\* SpecifierSet.contains(v, prereleases=None).  packaging up to 25.0 refuses a
\* prerelease unless the specifier names one ("gate"); packaging 26 answers as
\* filter([v]) does and accepts it, there being no other version ("filter").
ContainsModes == {"gate", "filter"}
specifier_contains(req, v, mode) ==
  IF mode = "gate" /\ is_prerelease(v) /\ ~specifier_prereleases(req)
  THEN FALSE
  ELSE in_range(req, v)

\* sorted(seq of versions)
RECURSIVE Insert(_, _)
Insert(s, x) ==
  IF s = <<>> THEN <<x>>
  ELSE IF x < Head(s) THEN <<x>> \o s
  ELSE <<Head(s)>> \o Insert(Tail(s), x)
\* the versions left in listing order: C5 does not hold of it
unsorted(s) == s

RECURSIVE sorted(_)
sorted(s) == IF s = <<>> THEN <<>> ELSE Insert(sorted(SubSeq(s, 1, Len(s) - 1)), s[Len(s)])

\* every listed version kept, whatever the specifier: C13 does not hold of it
preferred_versions_unfiltered(req, versions, mode) == sorted(versions)

preferred_versions(req, versions, mode) ==
  IF versions = <<>> THEN <<>>
  ELSE
    LET pre_allowed == specifier_prereleases(req)
        ok(v) == (req.op = "") \/ specifier_contains(req, v, mode)
        viable == SelectSeq(versions, ok)
        stable(v) == ~is_prerelease(v)
        has_stable == \E i \in 1..Len(viable) : ~is_prerelease(viable[i])
    IN IF viable = <<>> THEN <<>>
       ELSE IF pre_allowed \/ ~has_stable THEN sorted(viable)
       ELSE sorted(SelectSeq(viable, stable))

\* first tag of env_order that the wheel carries, else None
RECURSIVE best_record_tag(_, _)
best_record_tag(tags, env_order) ==
  IF env_order = <<>> THEN None
  ELSE IF Head(env_order) \in tags THEN Head(env_order)
  ELSE best_record_tag(tags, Tail(env_order))

\* position of a tag in env_order, counted from 0 (the dict `order`)
RECURSIVE order_of(_, _)
order_of(tag, env_order) ==
  IF env_order = <<>> THEN 8000000
  ELSE IF Head(env_order) = tag THEN 0
  ELSE LET r == order_of(tag, Tail(env_order)) IN IF r = 8000000 THEN r ELSE r + 1

score(a, env_order) == IF a.tag = None THEN 9000000 ELSE order_of(a.tag, env_order)

\* the first candidate as listed, whatever it is: C7 does not hold of it
pick_first(cands, env_order) == IF cands = <<>> THEN <<>> ELSE <<cands[1]>>

\* wheels.sort(key=score)[0]: the first wheel of least score (the sort is stable).
\* Optional[Artifact] is a sequence of length 0 (None) or 1.
pick_artifact(cands, env_order) ==
  LET is_w(c) == c.is_wheel
      is_s(c) == ~c.is_wheel
      wheels == SelectSeq(cands, is_w)
      sdists == SelectSeq(cands, is_s)
  IN IF wheels # <<>>
     THEN LET best == CHOOSE i \in 1..Len(wheels) :
                        /\ \A j \in 1..Len(wheels) :
                             score(wheels[i], env_order) <= score(wheels[j], env_order)
                        /\ \A j \in 1..(i - 1) :
                             score(wheels[j], env_order) > score(wheels[i], env_order)
          IN <<wheels[best]>>
     ELSE IF sdists # <<>> THEN <<sdists[1]>> ELSE <<>>

\* parse_artifact_hash_from_href: the sha256=<64 hex> token of the fragment
parse_artifact_hash_from_href(href) ==
  CASE href.fragment = "sha256=dX" -> "dX"
    [] href.fragment = "sha256=dY" -> "dY"
    [] OTHER -> None

\* ------------------------------------------------ what an index can list
Fragments == {"", "sha256=dX", "md5=dX"}
WheelTagSets == {{env_tags[1]}, {env_tags[2]}, {ForeignTag}, {env_tags[2], ForeignTag}}
WheelName(project, v, tags) == [tags |-> tags, project |-> project, version |-> v, ext |-> "whl"]
SdistName(project, v) == [tags |-> {}, project |-> project, version |-> v, ext |-> "tar.gz"]
\* a second sdist of the same release, <project>-<v>.zip
SdistZip(project, v) == [tags |-> {}, project |-> project, version |-> v, ext |-> "zip"]
\* the extensions as Python orders the filenames of one release: "a-1.tar.gz" <
\* "a-1.whl" < "a-1.zip"
ExtOrder == <<"tar.gz", "whl", "zip">>
\* an anchor of a listing page, the (href, filename) of fetch_simple_listing
Anchor(filename, fragment) ==
  [href |-> [fragment |-> fragment, file |-> filename], text |-> filename]
\* an anchor whose text is not the last path segment of its href
AnchorAt(file, filename, fragment) ==
  [href |-> [fragment |-> fragment, file |-> file], text |-> filename]
SeqsUpTo(S, n) == UNION {[1..k -> S] : k \in 0..n}
\* the answer of one index: the fetch raised, or the anchors of the page
IndexAnswers(anchors, max_anchors) ==
  {[anchors |-> <<>>, status |-> "error"]}
  \cup {[anchors |-> l, status |-> "ok"] : l \in SeqsUpTo(anchors, max_anchors)}
\* a Requires-Dist line that Requirement() cannot parse
Unparseable == [name |-> "", op |-> "", ver |-> 0, marker |-> "none"]
\* what one pass of the retry loop of _download can meet: the bytes arrive, the
\* request raises, or the stream breaks with part of the file written
Arrives(bytes) == [bytes |-> bytes, arrived |-> TRUE]
Raises == [bytes |-> "", arrived |-> FALSE]
Breaks == [bytes |-> "partial", arrived |-> FALSE]

\* ------------------------------------------------- the memory server's data
\* mcp/pmll_memory_mcp: session ids, context keys (promise ids are keys too) and values
SessionIds == {"s1", "s2"}
KeyOrder == <<"k1", "k2", "k3", "k4">>
Keys == {KeyOrder[i] : i \in 1..MaxKeys}
Values == {"v", "w"}
\* the silo_size of init when given, and its default
SiloSizes == {1}
DefaultSiloSize == 256

\* PMMemoryStore.__init__: _slots is a dict, kept here in insertion order
PMMemoryStore(silo_size) == [silo_size |-> silo_size, slots |-> <<>>]

\* self._slots.get(key): the slot of the key, if there is one
slot_of(store, key) ==
  LET has(sl) == sl.key = key IN SelectSeq(store.slots, has)

\* PMMemoryStore.peek: (hit, value, index), the two last None on a miss
PMMemoryStore_peek(store, key) ==
  LET slot == slot_of(store, key)
  IN IF slot # <<>> /\ slot[1].resolved
     THEN [hit |-> TRUE, value |-> <<slot[1].value>>, index |-> <<slot[1].index>>]
     ELSE [hit |-> FALSE, value |-> <<>>, index |-> <<>>]

\* PMMemoryStore.set allocating an index at every call, the key stored or not: C19 does
\* not hold of it
PMMemoryStore_set_allocating(store, key, value) ==
  LET index == Len(store.slots)
      update(sl) == IF sl.key = key
                    THEN [sl EXCEPT !.value = value, !.resolved = TRUE, !.index = index]
                    ELSE sl
  IN IF slot_of(store, key) # <<>>
     THEN [store |-> [store EXCEPT !.slots = [i \in 1..Len(store.slots) |->
                                                update(store.slots[i])]],
           index |-> index]
     ELSE [store |-> [store EXCEPT !.slots = Append(store.slots,
                        [key |-> key, resolved |-> TRUE, value |-> value, index |-> index])],
           index |-> index]

\* PMMemoryStore.set: the store afterwards and the index returned
PMMemoryStore_set(store, key, value) ==
  IF slot_of(store, key) # <<>>
  THEN LET update(sl) == IF sl.key = key
                         THEN [sl EXCEPT !.value = value, !.resolved = TRUE] ELSE sl
       IN [store |-> [store EXCEPT !.slots = [i \in 1..Len(store.slots) |->
                                                update(store.slots[i])]],
           index |-> slot_of(store, key)[1].index]
  ELSE LET index == Len(store.slots)
       IN [store |-> [store EXCEPT !.slots = Append(store.slots,
                        [key |-> key, resolved |-> TRUE, value |-> value, index |-> index])],
           index |-> index]

\* get_store: the registry with the session's store created if it was not there
get_store(stores, session_id, silo_size) ==
  IF stores[session_id] = <<>>
  THEN [stores EXCEPT ![session_id] = <<PMMemoryStore(silo_size)>>]
  ELSE stores

\* drop_store counting the slots and leaving the store in the registry: C21 does not hold
\* of it
drop_store_counting(stores, session_id) ==
  [stores |-> stores,
   count |-> IF stores[session_id] = <<>> THEN 0 ELSE Len(stores[session_id][1].slots)]

\* drop_store clearing the whole registry: C20 does not hold of it
drop_store_of_all(stores, session_id) ==
  [stores |-> [s \in DOMAIN stores |-> <<>>],
   count |-> IF stores[session_id] = <<>> THEN 0 ELSE Len(stores[session_id][1].slots)]

\* drop_store: the registry without the session's store, and len(store) or 0
drop_store(stores, session_id) ==
  [stores |-> [stores EXCEPT ![session_id] = <<>>],
   count |-> IF stores[session_id] = <<>> THEN 0 ELSE Len(stores[session_id][1].slots)]

\* PMMemoryStore.flush: the store afterwards and the number of slots cleared
PMMemoryStore_flush(store) ==
  [store |-> [store EXCEPT !.slots = <<>>], count |-> Len(store.slots)]

\* a tool call (tool, session_id, key or promise_id, value) and the dict it returned:
\* hit, status, value or payload, index, and silo_size or cleared_count as count;
\* what a tool does not take or does not return is empty, a hit not returned is FALSE
Reply(tool, session_id, key, arg, hit, status, value, index, count) ==
  [status |-> status, key |-> key, hit |-> hit, value |-> value, index |-> index,
   session_id |-> session_id, count |-> count, tool |-> tool, arg |-> arg]
NoReply == Reply("", "", "", <<>>, FALSE, "", <<>>, <<>>, <<>>)

\* the promise ids registered and the payloads they are resolved with
PromiseIds == {KeyOrder[1]}
Payloads == {"p", "q"}

\* register leaving an entry the id already has: C40 does not hold of it
QPromiseRegistry_register_once(promise_registry, promise_id) ==
  IF promise_registry[promise_id] # <<>> THEN promise_registry
  ELSE [promise_registry EXCEPT ![promise_id] = <<[status |-> "pending", payload |-> <<>>]>>]

\* QPromiseRegistry.register: a new pending entry, in place of any the id had
QPromiseRegistry_register(promise_registry, promise_id) ==
  [promise_registry EXCEPT ![promise_id] = <<[status |-> "pending", payload |-> <<>>]>>]

\* QPromiseRegistry.resolve: the registry afterwards and the boolean returned
QPromiseRegistry_resolve(promise_registry, promise_id, payload) ==
  IF promise_registry[promise_id] = <<>>
  THEN [registry |-> promise_registry, found |-> FALSE]
  ELSE [registry |-> [promise_registry EXCEPT ![promise_id] =
                        <<[status |-> "resolved", payload |-> <<payload>>]>>],
        found |-> TRUE]

\* QPromiseRegistry.peek_promise: (found, status, payload)
peek_promise(promise_registry, promise_id) ==
  IF promise_registry[promise_id] = <<>>
  THEN [status |-> "", payload |-> <<>>, found |-> FALSE]
  ELSE [status |-> promise_registry[promise_id][1].status,
        payload |-> promise_registry[promise_id][1].payload, found |-> TRUE]

\* peek_context asking the promise registry before the store: C22 does not hold of it
peek_context_promise_first(key, session_id, store, promise_registry) ==
  LET kv == PMMemoryStore_peek(store, key)
      promise == peek_promise(promise_registry, key)
  IN IF promise.found /\ promise.status = "pending"
     THEN Reply("peek", session_id, key, <<>>, TRUE, "pending", <<>>, <<>>, <<>>)
     ELSE IF kv.hit
     THEN Reply("peek", session_id, key, <<>>, TRUE, "", kv.value, kv.index, <<>>)
     ELSE Reply("peek", session_id, key, <<>>, FALSE, "", <<>>, <<>>, <<>>)

\* peek.peek_context: a hit of the store, else a pending promise, else a miss
peek_context(key, session_id, store, promise_registry) ==
  LET kv == PMMemoryStore_peek(store, key)
      promise == peek_promise(promise_registry, key)
  IN IF kv.hit
     THEN Reply("peek", session_id, key, <<>>, TRUE, "", kv.value, kv.index, <<>>)
     ELSE IF promise.found /\ promise.status = "pending"
     THEN Reply("peek", session_id, key, <<>>, TRUE, "pending", <<>>, <<>>, <<>>)
     ELSE Reply("peek", session_id, key, <<>>, FALSE, "", <<>>, <<>>, <<>>)

\* ------------------------------------------------- the memory controller's data
\* Ppm-lib/pmll_mcp/pmll_core.py: pool sizes, promise ids, ttl_s (None, or seconds counted
\* in ticks of the clock), the threads that call process_promises, the slots read
PoolSizes == {2}
Pids == {0, 1, 3}
TTLs == {<<>>, <<0>>, <<1>>}
Threads == {"t1", "t2"}
SlotsRead == {-1, 0, 1, 2}
\* the data of the first write, of the second, and so on
DataOrder == <<"d1", "d2", "d3", "d4", "d5">>

\* Promise: importance is kept and never read
Promise(pid, data, ttl_s, created_ts) ==
  [pid |-> pid, data |-> data, ttl_s |-> ttl_s, created_ts |-> created_ts]

\* Promise.expired taking a promise for live at the very end of its ttl_s: C27 does not
\* hold of it
expired_later(p, now) ==
  IF p.ttl_s = <<>> THEN FALSE ELSE (now - p.created_ts) > p.ttl_s[1]

\* Promise.expired at the time now
expired(p, now) ==
  IF p.ttl_s = <<>> THEN FALSE ELSE (now - p.created_ts) >= p.ttl_s[1]

\* PythonBackend.phi
phi(idx, n) == idx % n

\* the times time.time() may return to the reads of one loop over a queue, the clock
\* being at now when the loop starts: one for each promise, none earlier than the one
\* before it
Readings(len, now) ==
  {times \in [1..len -> now..MaxClock] : \A i \in 1..(len - 1) : times[i] <= times[i + 1]}

\* the loop of process_promises run from the end of the queue to its start: C26 does not
\* hold of it
process_loop_backwards(n, slots, queue, times) ==
  LET loop[i \in 0..Len(queue)] ==
        IF i = 0
        THEN [pool |-> slots, committed |-> 0]
        ELSE IF expired(queue[Len(queue) + 1 - i], times[Len(queue) + 1 - i])
        THEN loop[i - 1]
        ELSE [pool |-> [loop[i - 1].pool EXCEPT
                          ![phi(queue[Len(queue) + 1 - i].pid, n) + 1] =
                            <<queue[Len(queue) + 1 - i].data>>],
              committed |-> loop[i - 1].committed + 1]
  IN loop[Len(queue)]

\* process_promises, the loop over the queue it took, p.expired reading the time anew for
\* each promise (times[i] for the i-th): the pool afterwards and committed
process_loop(n, slots, queue, times) ==
  LET loop[i \in 0..Len(queue)] ==
        IF i = 0
        THEN [pool |-> slots, committed |-> 0]
        ELSE IF expired(queue[i], times[i])
        THEN loop[i - 1]
        ELSE [pool |-> [loop[i - 1].pool EXCEPT ![phi(queue[i].pid, n) + 1] =
                          <<queue[i].data>>],
              committed |-> loop[i - 1].committed + 1]
  IN loop[Len(queue)]

\* MemoryController.read_slot: the data of the slot, None (empty) outside the pool
read_slot_of(n, slots, slot) ==
  IF 0 <= slot /\ slot < n THEN slots[slot + 1] ELSE <<>>

\* a call on the controller and what it returned: the thread, what the call was given (the
\* pid of a write, the slot of a read_slot, the times time.time() returned to a
\* process_promises), the data returned, the count returned; what a call does not take
\* or return is empty
Answer(call, thread, given, data, committed) ==
  [data |-> data, committed |-> committed, call |-> call, thread |-> thread,
   given |-> given]
NoAnswer == Answer("", "", <<>>, <<>>, <<>>)

\* ------------------------------------------------- ppm publish: its data
\* the files of the wheelhouse, in the order sorted() gives their paths
FileOrder == <<"B-1.whl", "a-1.whl", "a-1.tar.gz">>
FileNames == {FileOrder[i] : i \in 1..Len(FileOrder)}
\* those of them that end with .whl
DotWhl == {FileOrder[1], FileOrder[2]}
\* how urlopen ends for one wheel: a response, HTTPError, URLError, or another exception
\* (http.client.RemoteDisconnected, a timeout while the response is awaited)
UploadOutcomes == {"ok", "HTTPError", "URLError", "raised"}

\* cmd_publish before it is called
PublishIdle ==
  [wheels |-> <<>>, registry |-> "", pc |-> "idle", uploads |-> <<>>, ok_count |-> 0,
   fail_count |-> 0, exit |-> <<>>, token |-> ""]
NoPublishArgs ==
  [flag_registry |-> "", env_registry |-> "", toml_registry |-> "", flag_token |-> "",
   env_token |-> "", wheelhouse |-> {}]
\* --registry, PPM_REGISTRY_URL, [tool.ppm] registry, --token, PPM_REGISTRY_TOKEN, each
\* empty when it is not given, and the files of the wheelhouse
PublishArgs ==
  [flag_registry : {"", "Rf"}, env_registry : {"", "Re"}, toml_registry : {"", "Rt"},
   flag_token : {"", "Tf"}, env_token : {"", "Te"}, wheelhouse : SUBSET FileNames]

\* the registry taken from the flag, else the environment, PPM.toml never read
registry_of_without_toml(args) ==
  IF args.flag_registry # "" THEN args.flag_registry ELSE args.env_registry

\* cmd_publish: the registry taken from the flag, else the environment, else PPM.toml
registry_of(args) ==
  IF args.flag_registry # "" THEN args.flag_registry
  ELSE IF args.env_registry # "" THEN args.env_registry
  ELSE args.toml_registry

\* cmd_publish: the token taken from the flag, else the environment
token_of(args) ==
  IF args.flag_token # "" THEN args.flag_token ELSE args.env_token

\* _discover_wheels: the .whl files of the wheelhouse, sorted
discover_wheels(wheelhouse) ==
  LET found(f) == f \in wheelhouse /\ f \in DotWhl IN SelectSeq(FileOrder, found)

\* --------------------------------------------------------------- state
VARIABLES
  requirements,        \* the requirement strings given to resolve_all
  extra_indexes,       \* number of --extra-index options
  strict_hash,         \* --strict-hash
  follow_transitives,  \* not --no-transitives
  retries,             \* --retries
  packaging_contains,  \* which SpecifierSet.contains the installed packaging has
  simple_index,        \* what the indexes answer for each project, where they do not change
  pass,                \* how many times main has been started
  ri,                  \* requirements consumed by the loop of resolve_all
  stack,               \* the frames of _resolve_one, innermost last
  resolve_queue,       \* `queue` of resolve (lines 166-269), first in first out
  resolved,            \* self.resolved, in insertion order
  seen,                \* self.seen
  cache,               \* <root>/.ppm/cache as far as the pass has looked: file, bytes
  fetched,             \* what each index answered to the _gather_candidates under way
  read,                \* name and marker of the Requires-Dist lines parsed so far
  outcome,             \* "running", "ok" (outputs written) or the fatal error
  lock,                \* the packages written to .ppm/lock.json
  verifier,            \* the runs of the generated resolver.py: what it met, its exit code
  session_stores,      \* kv_store._session_stores: the PMMemoryStore of each session
  active_sessions,     \* server._active_sessions: the silo_size of each initialised session
  promises,            \* server._promise_registry._promises
  reply,               \* the last tool call of the memory server and what it returned
  pool_size,           \* MemoryController.pool_size
  pool,                \* MemoryController._pool: slot 0 first, a slot of None empty
  promise_queue,       \* MemoryController._promise_queue
  clock,               \* time.time(), in ticks
  processing,          \* the queue each thread inside process_promises has taken
  written,             \* the promises given to write so far
  returned,            \* the sum of what the process_promises calls have returned
  answer,              \* the last call on the controller and what it returned
  publish_args,        \* ppm publish: --registry, --token, the environment, PPM.toml, files
  publish              \* ppm publish: where cmd_publish is, its counts, its exit status

vars == <<requirements, extra_indexes, strict_hash, follow_transitives, retries,
          packaging_contains, simple_index, pass, ri, stack, resolve_queue, resolved, seen,
          cache,
          fetched, read, outcome, lock, verifier,
          session_stores, active_sessions, promises, reply,
          pool_size, pool, promise_queue, clock, processing, written, returned, answer,
          publish_args, publish>>
\* the arguments of main and the surroundings that stay as they are
config == <<requirements, extra_indexes, strict_hash, follow_transitives, retries,
            packaging_contains, simple_index>>
\* the state of the memory server
server == <<session_stores, active_sessions, promises, reply>>
\* the state of the memory controller
controller == <<pool_size, pool, promise_queue, clock, processing, written, returned,
                answer>>
\* the state of ppm publish
cli == <<publish_args, publish>>
\* what no step of a pass of the Resolver class touches
elsewhere == <<pass, resolve_queue, server, controller, cli>>
\* the state of a resolver pass and of its surroundings
resolver == <<config, pass, ri, stack, resolve_queue, resolved, seen, cache, fetched, read,
              outcome, lock, verifier>>

\* --retries taken as given, without the max of line 510: C15 does not hold of it
retries_as_given == retries

\* request_session: s.request_retries = max(0, retries)
request_retries == IF retries < 0 THEN 0 ELSE retries

\* the locals of one call of _resolve_one
Frame(req) ==
  [req |-> req, versions |-> <<>>, pc |-> "enter", candidates |-> <<>>,
   chosen |-> <<>>, digest |-> "", attempt |-> 0, lines |-> 0]

top == stack[Len(stack)]
Running == outcome = "running" /\ stack # <<>>
SetTop(f) == [stack EXCEPT ![Len(stack)] = f]
Pop == SubSeq(stack, 1, Len(stack) - 1)
ResolvedNames == {resolved[k].name : k \in 1..Len(resolved)}
LockOf(name) == resolved[CHOOSE k \in 1..Len(resolved) : resolved[k].name = name]
CachedFiles == {e.file : e \in cache}
BytesOf(file) == (CHOOSE e \in cache : e.file = file).bytes
\* an error caught where it is raised, the call returning and the pass going on: C35
\* does not hold of it
FatalCaught(kind) ==
  /\ outcome' = outcome
  /\ stack' = SubSeq(stack, 1, Len(stack) - 1)

\* SystemExit or an exception leaving main: the frames unwind, nothing is written
Fatal(kind) ==
  /\ outcome' = kind
  /\ stack' = <<>>

\* the memory server as its modules are imported: no store, no session, no promise
ServerStarted ==
  /\ session_stores = [s \in SessionIds |-> <<>>]
  /\ active_sessions = [s \in SessionIds |-> <<>>]
  /\ promises = [q \in Keys |-> <<>>]
  /\ reply = NoReply

\* a MemoryController on which nothing is called, and no ppm publish
ControllerUnused ==
  /\ pool_size = 1
  /\ pool = <<<<>>>>
  /\ promise_queue = <<>>
  /\ clock = 0
  /\ processing = [t \in Threads |-> <<>>]
  /\ written = <<>>
  /\ returned = 0
  /\ answer = NoAnswer
PublishNotRun ==
  /\ publish_args = NoPublishArgs
  /\ publish = PublishIdle

\* Resolver.__init__ and the arguments of main
InitPass(reqs, extras, stricts, follows, tries, modes) ==
  /\ requirements \in reqs
  /\ extra_indexes \in extras
  /\ strict_hash \in stricts
  /\ follow_transitives \in follows
  /\ retries \in tries
  /\ packaging_contains \in modes
  /\ simple_index = <<>>
  /\ pass = 1
  /\ ServerStarted
  /\ ControllerUnused
  /\ PublishNotRun
  /\ ri = 0
  /\ stack = <<>>
  /\ resolve_queue = <<>>
  /\ resolved = <<>>
  /\ seen = {}
  /\ cache = {}
  /\ fetched = <<>>
  /\ read = {}
  /\ outcome = "running"
  /\ lock = <<>>
  /\ verifier = <<>>

\* resolve_all: the next requirement of the loop
ResolveAllNext ==
  /\ outcome = "running" /\ stack = <<>> /\ ri < Len(requirements)
  /\ ri' = ri + 1
  /\ stack' = IF marker_allows(requirements[ri + 1].marker)
              THEN <<Frame(requirements[ri + 1])>> ELSE <<>>
  /\ UNCHANGED <<config, elsewhere, fetched, read, resolved, seen, cache, outcome, lock, verifier>>

\* the values of self.resolved as they were inserted: C17 does not hold of it
insertion_order(locks, names) == locks

\* [self.resolved[k] for k in sorted(self.resolved.keys())]
RECURSIVE InNameOrder(_, _)
InNameOrder(locks, names) ==
  IF names = <<>> THEN <<>>
  ELSE LET here(p) == p.name = Head(names)
       IN SelectSeq(locks, here) \o InNameOrder(locks, Tail(names))

\* the outputs written after each direct requirement, not once at the end: C18 does
\* not hold of it
WriteOutputsEach ==
  /\ outcome = "running" /\ stack = <<>> /\ ri > 0
  /\ lock' = InNameOrder(resolved, NameOrder)
  /\ outcome' = IF ri = Len(requirements) THEN "ok" ELSE "running"
  /\ UNCHANGED <<config, elsewhere, fetched, read, ri, stack, resolved, seen, cache, verifier>>

\* main: resolve_all has returned; the lock and the other outputs are written
WriteOutputs ==
  /\ outcome = "running" /\ stack = <<>> /\ ri = Len(requirements)
  /\ lock' = InNameOrder(resolved, NameOrder)
  /\ outcome' = "ok"
  /\ UNCHANGED <<config, elsewhere, fetched, read, ri, stack, resolved, seen, cache, verifier>>

\* _resolve_one without lines 832-836: C3 does not hold of it
EnterAlways ==
  /\ Running /\ top.pc = "enter"
  /\ seen' = seen \cup {canonicalize_name(top.req.name)}
  /\ stack' = SetTop([top EXCEPT !.pc = "gather"])
  /\ UNCHANGED <<config, elsewhere, fetched, read, ri, resolved, cache, outcome, lock, verifier>>

\* _resolve_one, lines 831-838: already resolved, seen, or new
Enter ==
  /\ Running /\ top.pc = "enter"
  /\ LET name_norm == canonicalize_name(top.req.name)
     IN IF name_norm \in ResolvedNames
        THEN /\ stack' = Pop
             /\ UNCHANGED <<seen, outcome>>
        ELSE IF name_norm \in seen
        THEN /\ Fatal("cyclic or repeated requirement detected")
             /\ UNCHANGED seen
        ELSE /\ seen' = seen \cup {name_norm}
             /\ stack' = SetTop([top EXCEPT !.pc = "gather"])
             /\ UNCHANGED outcome
  /\ UNCHANGED <<config, elsewhere, fetched, read, ri, resolved, cache, lock, verifier>>

\* the Artifact that _gather_candidates makes of one anchor
Classify(anchor) ==
  [tag |-> IF anchor.text.ext = "whl"
           THEN best_record_tag(anchor.text.tags, env_tags) ELSE None,
   is_wheel |-> anchor.text.ext = "whl",
   version |-> anchor.text.version,
   filename |-> anchor.text,
   url |-> anchor.href,
   sha256 |-> IF parse_artifact_hash_from_href(anchor.href) = None
              THEN "" ELSE parse_artifact_hash_from_href(anchor.href)]

RECURSIVE Concat(_)
Concat(ss) == IF ss = <<>> THEN <<>> ELSE Head(ss) \o Concat(Tail(ss))

\* _gather_candidates without the try of lines 777-780, one failed fetch losing
\* the listing: C12 does not hold of it
gather_candidates_or_nothing(answers) ==
  IF \E k \in 1..Len(answers) : answers[k].status = "error" THEN <<>>
  ELSE Concat([k \in 1..Len(answers) |->
                 [i \in 1..Len(answers[k].anchors) |-> Classify(answers[k].anchors[i])]])

\* _gather_candidates over the primary index and the extra ones: an index whose
\* fetch raised is skipped
gather_candidates(answers) ==
  LET of(ans) == IF ans.status = "error" THEN <<>>
                ELSE [i \in 1..Len(ans.anchors) |-> Classify(ans.anchors[i])]
  IN Concat([k \in 1..Len(answers) |-> of(answers[k])])

version_of(c) == c.version

\* _resolve_one, lines 839-841
GatherCandidates(listed, max_anchors) ==
  /\ Running /\ top.pc = "gather"
  /\ \E answers \in [1..(1 + extra_indexes) ->
                        IndexAnswers(listed[canonicalize_name(top.req.name)], max_anchors)] :
       LET candidates == gather_candidates(answers)
       IN /\ fetched' = answers
          /\ IF candidates = <<>>
             THEN Fatal("No candidates found")
             ELSE /\ stack' = SetTop([top EXCEPT !.pc = "select",
                                                 !.candidates = candidates,
                                                 !.versions = [i \in 1..Len(candidates) |->
                                                                version_of(candidates[i])]])
                  /\ UNCHANGED outcome
  /\ UNCHANGED <<config, elsewhere, read, ri, resolved, seen, cache, lock, verifier>>

\* _resolve_one, lines 839-841, with indexes that answer what they answered before
GatherUnchanged ==
  /\ Running /\ top.pc = "gather"
  /\ LET answers == simple_index[canonicalize_name(top.req.name)]
         candidates == gather_candidates(answers)
     IN /\ fetched' = answers
        /\ IF candidates = <<>>
           THEN Fatal("No candidates found")
           ELSE /\ stack' = SetTop([top EXCEPT !.pc = "select",
                                               !.candidates = candidates,
                                               !.versions = [i \in 1..Len(candidates) |->
                                                              version_of(candidates[i])]])
                /\ UNCHANGED outcome
  /\ UNCHANGED <<config, elsewhere, read, ri, resolved, seen, cache, lock, verifier>>

\* pick_artifact over candidates kept in a set, whose order is not the order of the
\* listing: any of the wheels of the least score, or any of the sdists when there is no
\* wheel. C16 does not hold of it
SelectArtifactUnordered ==
  /\ Running /\ top.pc = "select"
  /\ LET versions == preferred_versions(top.req, top.versions, packaging_contains)
     IN IF versions = <<>>
        THEN /\ Fatal("No versions satisfy specifier")
             /\ UNCHANGED fetched
        ELSE LET best_v == versions[Len(versions)]
                 at_best(c) == c.version = best_v
                 cands == SelectSeq(top.candidates, at_best)
                 first == pick_artifact(cands, env_tags)
             IN IF first = <<>>
                THEN /\ Fatal("No compatible artifact")
                     /\ UNCHANGED fetched
                ELSE /\ \E i \in 1..Len(cands) :
                          /\ cands[i].is_wheel = first[1].is_wheel
                          /\ score(cands[i], env_tags) = score(first[1], env_tags)
                          /\ stack' = SetTop([top EXCEPT !.pc = "download",
                                                         !.versions = versions,
                                                         !.chosen = <<cands[i]>>])
                     /\ fetched' = <<>>
                     /\ UNCHANGED outcome
  /\ UNCHANGED <<config, elsewhere, read, ri, resolved, seen, cache, lock, verifier>>

\* _resolve_one, lines 843-853
SelectArtifact ==
  /\ Running /\ top.pc = "select"
  /\ LET versions == preferred_versions(top.req, top.versions, packaging_contains)
     IN IF versions = <<>>
        THEN /\ Fatal("No versions satisfy specifier")
             /\ UNCHANGED fetched
        ELSE LET best_v == versions[Len(versions)]
                 at_best(c) == c.version = best_v
                 cands == SelectSeq(top.candidates, at_best)
                 chosen == pick_artifact(cands, env_tags)
             IN IF chosen = <<>>
                THEN /\ Fatal("No compatible artifact")
                     /\ UNCHANGED fetched
                ELSE /\ stack' = SetTop([top EXCEPT !.pc = "download",
                                                    !.versions = versions,
                                                    !.chosen = chosen])
                     /\ fetched' = <<>>
                     /\ UNCHANGED outcome
  /\ UNCHANGED <<config, elsewhere, read, ri, resolved, seen, cache, lock, verifier>>

\* open(local, "wb") and the chunks written: the file now holds `bytes`
Written(file, bytes) == {e \in cache : e.file # file} \cup {[bytes |-> bytes, file |-> file]}

\* _download returning no digest for the file: C37 does not hold of it
DownloadedUndigested(f, digest) ==
  [f EXCEPT !.pc = "commit", !.candidates = <<>>, !.versions = <<>>, !.digest = ""]

\* _download has returned (line 856): the listing is not read again
Downloaded(f, digest) ==
  [f EXCEPT !.pc = "commit", !.candidates = <<>>, !.versions = <<>>, !.digest = digest]

\* _download, lines 753-755: the file is in the cache directory (the pass wrote it, or
\* it was there before the pass), and its digest is returned without a request
DownloadReuse(present) ==
  /\ Running /\ top.pc = "download" /\ top.attempt = 0
  /\ LET local == top.chosen[1].url.file
     IN \E bytes \in IF local \in CachedFiles THEN {BytesOf(local)} ELSE present :
          /\ cache' = Written(local, bytes)
          /\ stack' = SetTop(Downloaded(top, sha256_file(bytes)))
  /\ UNCHANGED <<config, elsewhere, fetched, read, ri, resolved, seen, outcome, lock, verifier>>

\* _download without lines 753-755, a request made whatever the cache holds: C14
\* does not hold of it
DownloadAttemptAlways(attempts) ==
  /\ Running /\ top.pc = "download"
  /\ LET local == top.chosen[1].url.file
     IN \E att \in attempts :
          /\ cache' = IF att.bytes = "" THEN cache ELSE Written(local, att.bytes)
          /\ IF att.arrived
             THEN /\ stack' = SetTop(Downloaded(top, sha256_file(att.bytes)))
                  /\ UNCHANGED outcome
             ELSE IF top.attempt = request_retries
             THEN Fatal("download failed")
             ELSE /\ stack' = SetTop([top EXCEPT !.attempt = top.attempt + 1])
                  /\ UNCHANGED outcome
  /\ UNCHANGED <<config, elsewhere, fetched, read, ri, resolved, seen, lock, verifier>>

\* _download, lines 757-769: one attempt of the retry loop
DownloadAttempt(attempts) ==
  /\ Running /\ top.pc = "download"
  /\ LET local == top.chosen[1].url.file
     IN /\ top.attempt > 0 \/ local \notin CachedFiles
        /\ \E att \in attempts :
             /\ cache' = IF att.bytes = "" THEN cache ELSE Written(local, att.bytes)
             /\ IF att.arrived
                THEN /\ stack' = SetTop(Downloaded(top, sha256_file(att.bytes)))
                     /\ UNCHANGED outcome
                ELSE IF top.attempt = request_retries
                THEN Fatal("download failed")
                ELSE /\ stack' = SetTop([top EXCEPT !.attempt = top.attempt + 1])
                     /\ UNCHANGED outcome
  /\ UNCHANGED <<config, elsewhere, fetched, read, ri, resolved, seen, lock, verifier>>

\* _resolve_one with the loop of lines 872-881 entered whatever was chosen: C11 does
\* not hold of it
CommitAndExpand ==
  /\ Running /\ top.pc = "commit"
  /\ LET chosen == [top.chosen[1] EXCEPT
                      !.sha256 = IF top.chosen[1].sha256 # "" THEN top.chosen[1].sha256
                                 ELSE top.digest]
         pkl == [name |-> canonicalize_name(top.req.name),
                 version |-> chosen.version,
                 markers |-> IF top.req.marker = "none" THEN None ELSE top.req.marker,
                 artifacts |-> <<chosen>>]
     IN /\ resolved' = Append(resolved, pkl)
        /\ stack' = SetTop([top EXCEPT !.pc = "expand", !.chosen = <<chosen>>])
        /\ UNCHANGED outcome
  /\ UNCHANGED <<config, elsewhere, fetched, read, ri, seen, cache, lock, verifier>>

\* _resolve_one with the package put in self.resolved after the loop over the lines,
\* not before it: C34 does not hold of it
CommitAfterLines ==
  /\ Running /\ top.pc = "commit"
  /\ LET chosen == [top.chosen[1] EXCEPT
                      !.sha256 = IF top.chosen[1].sha256 # "" THEN top.chosen[1].sha256
                                 ELSE top.digest]
         pkl == [name |-> canonicalize_name(top.req.name),
                 version |-> chosen.version,
                 markers |-> IF top.req.marker = "none" THEN None ELSE top.req.marker,
                 artifacts |-> <<chosen>>]
         expands == follow_transitives /\ chosen.is_wheel /\ marker_allows(top.req.marker)
     IN IF strict_hash /\ chosen.sha256 = ""
        THEN /\ Fatal("Strict hash enabled")
             /\ UNCHANGED resolved
        ELSE /\ resolved' = IF expands THEN resolved ELSE Append(resolved, pkl)
             /\ stack' = IF expands
                         THEN SetTop([top EXCEPT !.pc = "expand", !.chosen = <<chosen>>])
                         ELSE Pop
             /\ UNCHANGED outcome
  /\ UNCHANGED <<config, elsewhere, fetched, read, ri, seen, cache, lock, verifier>>

\* _resolve_one, lines 857-871: the digest is recorded, the package is committed, and
\* the wheel's metadata is opened or the lock entry returned
Commit ==
  /\ Running /\ top.pc = "commit"
  /\ LET chosen == [top.chosen[1] EXCEPT
                      !.sha256 = IF top.chosen[1].sha256 # "" THEN top.chosen[1].sha256
                                 ELSE top.digest]
         pkl == [name |-> canonicalize_name(top.req.name),
                 version |-> chosen.version,
                 markers |-> IF top.req.marker = "none" THEN None ELSE top.req.marker,
                 artifacts |-> <<chosen>>]
     IN IF strict_hash /\ chosen.sha256 = ""
        THEN /\ Fatal("Strict hash enabled")
             /\ UNCHANGED resolved
        ELSE /\ resolved' = Append(resolved, pkl)
             /\ stack' = IF follow_transitives /\ chosen.is_wheel
                            /\ marker_allows(top.req.marker)
                         THEN SetTop([top EXCEPT !.pc = "expand", !.chosen = <<chosen>>])
                         ELSE Pop
             /\ UNCHANGED outcome
  /\ UNCHANGED <<config, elsewhere, fetched, read, ri, seen, cache, lock, verifier>>

\* a loop over the lines that never advances: C9 does not hold of it
ExpandLineAgain(requires_dist, max_lines) ==
  /\ Running /\ top.pc = "expand" /\ top.lines < max_lines
  /\ BytesOf(top.chosen[1].url.file) # "partial"
  /\ \E spec \in requires_dist :
       /\ read' = IF spec = Unparseable THEN read
                 ELSE read \cup {[name |-> spec.name, marker |-> spec.marker]}
       /\ stack' = IF spec = Unparseable THEN stack
                   ELSE IF ~marker_allows(spec.marker) THEN stack
                   ELSE IF canonicalize_name(spec.name) \in ResolvedNames THEN stack
                   ELSE Append(stack, Frame(spec))
  /\ UNCHANGED <<config, elsewhere, fetched, ri, resolved, seen, cache, outcome, lock, verifier>>

\* _resolve_one, lines 872-881: the next Requires-Dist line of the wheel; a file that
\* is no zip archive has none (parse_requires_from_wheel swallows the error)
ExpandLine(requires_dist, max_lines) ==
  /\ Running /\ top.pc = "expand" /\ top.lines < max_lines
  /\ BytesOf(top.chosen[1].url.file) # "partial"
  /\ \E spec \in requires_dist :
       LET here == SetTop([top EXCEPT !.lines = top.lines + 1])
       IN /\ read' = IF spec = Unparseable THEN read
                    ELSE read \cup {[name |-> spec.name, marker |-> spec.marker]}
          /\ stack' = IF spec = Unparseable THEN here
                      ELSE IF ~marker_allows(spec.marker) THEN here
                      ELSE IF canonicalize_name(spec.name) \in ResolvedNames THEN here
                      ELSE Append(here, Frame(spec))
  /\ UNCHANGED <<config, elsewhere, fetched, ri, resolved, seen, cache, outcome, lock, verifier>>

\* _resolve_one, line 883: the lines are exhausted
Return ==
  /\ Running /\ top.pc = "expand"
  /\ stack' = Pop
  /\ UNCHANGED <<config, elsewhere, fetched, read, ri, resolved, seen, cache, outcome, lock, verifier>>

\* main is started again on the same root with the same arguments: a new Resolver,
\* the cache directory and the lock as the pass before left them
Rerun ==
  /\ outcome # "running" /\ pass < MaxPasses
  /\ pass' = pass + 1
  /\ ri' = 0
  /\ stack' = <<>>
  /\ resolve_queue' = <<>>
  /\ resolved' = <<>>
  /\ seen' = {}
  /\ fetched' = <<>>
  /\ read' = {}
  /\ outcome' = "running"
  /\ UNCHANGED <<config, server, controller, cli, cache, lock, verifier>>

\* LOCK of the generated resolver.py: the artifacts of the packages written
LockedArtifacts(LOCK) ==
  UNION {{LOCK[k].artifacts[j] : j \in 1..Len(LOCK[k].artifacts)} : k \in 1..Len(LOCK)}
Missing == "missing"

\* verify(root) of the generated resolver.py, lines 676-699, on a host whose sys_tags
\* are `tags` and whose cache directory holds `files`: filename -> bytes or Missing
verify(LOCK, tags, files) ==
  LET flagged(a) ==
        \/ a.tag # None /\ a.tag \notin tags
        \/ /\ a.sha256 # ""
           /\ files[a.filename] # Missing
           /\ sha256_file(files[a.filename]) # a.sha256
      ok == ~\E a \in LockedArtifacts(LOCK) : flagged(a)
  IN IF ok THEN 0 ELSE 2

\* python resolver.py: the module opens with LOCK = <json.dumps of the lock> as Python
\* source (line 667).  Every artifact has an is_wheel, written true or false, and its
\* absent tags are written null: none is a name of Python, the module raises
\* NameError before verify is called, and the interpreter exits with status 1.
resolver_py(LOCK, tags, files) ==
  IF LockedArtifacts(LOCK) # {} THEN 1 ELSE verify(LOCK, tags, files)

\* python resolver.py, once the pass has written it: the host and the cache directory
\* are whatever they are at that time
Verify(hosts, contents) ==
  /\ outcome = "ok" /\ verifier = <<>>
  /\ \E tags \in hosts :
       \E files \in [{a.filename : a \in LockedArtifacts(lock)} -> contents \cup {Missing}] :
         verifier' = <<[tags |-> tags, files |-> files,
                        code |-> resolver_py(lock, tags, files)]>>
  /\ UNCHANGED <<config, elsewhere, fetched, read, ri, stack, resolved, seen, cache, outcome, lock>>

\* One pass with the inputs drawn from the given sets: what the indexes list for
\* each project, the bytes a cache file left by an earlier pass can hold, what a download
\* attempt can meet, the Requires-Dist lines a wheel can carry, and how many anchors
\* and lines there can be
Pass(listed, max_anchors, present, attempts, requires_dist, max_lines) ==
  \/ ResolveAllNext
  \/ WriteOutputs
  \/ Enter
  \/ GatherCandidates(listed, max_anchors)
  \/ SelectArtifact
  \/ DownloadReuse(present)
  \/ DownloadAttempt(attempts)
  \/ Commit
  \/ ExpandLine(requires_dist, max_lines)
  \/ Return

\* ---- the dependency graph: every spelling and marker, one version per project
GraphReqs == {r \in Requirement : r.op = ""}
GraphListed ==
  [project \in Names |->
     {Anchor(WheelName(project, 1, {env_tags[2]}), ""), Anchor(SdistName(project, 1), "")}]
Init ==
  InitPass({<<r>> : r \in GraphReqs}, {0, 1}, {FALSE}, BOOLEAN, {0}, {"gate"})
\* the lines of the wheels: every spelling, and every marker on the project c
GraphLines ==
  {r \in GraphReqs : r.marker = "none" \/ r.name = "c"} \cup {Unparseable}
\* the archive is served whole or the request raises; a file found in the cache is whole
Whole == {"X"}
ServedOrNot == {Arrives("X"), Raises}
Next ==
  Pass(GraphListed, MaxAnchors, Whole, ServedOrNot, GraphLines, MaxGraphLines)
Spec == Init /\ [][Next]_vars

\* ---- versions and specifiers: every specifier, every set of listed versions
VersionReqs == {r \in Requirement : r.name \in {"a", "b"} /\ r.marker = "none"}
VersionListed ==
  [project \in Names |-> {Anchor(WheelName(project, v, {env_tags[2]}), "") : v \in Versions}]
InitVersions ==
  InitPass({<<r1, r2>> : r1 \in {r \in VersionReqs : r.name = "a" /\ r.op = ""},
                          r2 \in VersionReqs},
           {1}, {FALSE}, {TRUE}, {0}, ContainsModes)
\* the lines of the wheels: every specifier on the project b
VersionLines == {r \in VersionReqs : r.name = "b"}
NextVersions ==
  Pass(VersionListed, MaxAnchors, Whole, ServedOrNot, VersionLines, MaxLines)
SpecVersions == InitVersions /\ [][NextVersions]_vars

\* ---- artifacts: wheels and sdists, fragments, cache files and downloads of one project
ArtifactReqs ==
  {r \in Requirement : r.name = "a" /\ r.op = "" /\ r.marker \in {"none", "false"}}
ArtifactListed ==
  [project \in Names |->
     {Anchor(WheelName(project, 1, t), "") : t \in WheelTagSets}
     \cup {Anchor(WheelName(project, 1, {env_tags[2]}), fr) : fr \in Fragments}
     \cup {Anchor(SdistName(project, 1), fr) : fr \in Fragments}]
InitArtifacts ==
  InitPass({<<r>> : r \in ArtifactReqs}, {0}, BOOLEAN, BOOLEAN, {-1, 1}, {"gate"})
\* the server sends one archive or another, the request raises, or the stream breaks
ArtifactAttempts == {Arrives("X"), Arrives("Y"), Raises, Breaks}
ArtifactLines == {r \in GraphReqs : r.name = "b" /\ r.marker = "none"} \cup {Unparseable}
NextArtifacts ==
  Pass(ArtifactListed, MaxListed, Contents, ArtifactAttempts, ArtifactLines, MaxLines)
SpecArtifacts == InitArtifacts /\ [][NextArtifacts]_vars

\* ---- the generated verifier, run after a pass over one project's artifacts
\* the hosts the verifier can be run on, each known by its sys_tags
Hosts == SUBSET AllTags
NextVerify ==
  \/ NextArtifacts
  \/ Verify(Hosts, Contents)
SpecVerify == InitArtifacts /\ [][NextVerify]_vars

\* ---- passes repeated over indexes that do not change: two direct requirements and
\* what their wheels require, a primary index and an extra one; the server sends one
\* archive or another, or fails
RerunReqs ==
  {<<[name |-> "b", op |-> "", ver |-> 0, marker |-> "none"],
     [name |-> "A", op |-> "", ver |-> 0, marker |-> "none"]>>}
RerunListed ==
  [project \in Names |->
     {Anchor(WheelName(project, 1, {env_tags[2]}), ""),
      Anchor(WheelName(project, 1, {env_tags[2]}), "sha256=dX"),
      Anchor(WheelName(project, MaxVer, {env_tags[2]}), ""),
      Anchor(SdistName(project, 1), "")}]
\* what the two indexes can answer: anything for the project a; for the other projects
\* the primary index lists a wheel or nothing, or fails, and the extra index fails
RerunIndexes ==
  {[project \in Names |->
      IF project = "a" THEN <<x, y>>
      ELSE <<IF project = "b" THEN zb ELSE zc, [anchors |-> <<>>, status |-> "error"]>>] :
     x \in IndexAnswers(RerunListed["a"], MaxAnchors),
     y \in IndexAnswers(RerunListed["a"], MaxAnchors),
     zb \in IndexAnswers({Anchor(WheelName("b", 1, {env_tags[2]}), "")}, 1),
     zc \in IndexAnswers({Anchor(WheelName("c", 1, {env_tags[2]}), "")}, 1)}
\* parse_requires_from_wheel on a file of the cache directory: the Requires-Dist lines
\* are in the archive, so the bytes of the file decide them.  The wheel of a that is "X"
\* requires c, the wheel of c that is "X" requires A, and any other file has no line
RerunRequires(file, bytes) ==
  IF file.ext # "whl" \/ bytes # "X" THEN <<>>
  ELSE IF file.project = "a"
  THEN <<[name |-> "c", op |-> "", ver |-> 0, marker |-> "none"]>>
  ELSE IF file.project = "c"
  THEN <<[name |-> "A", op |-> "", ver |-> 0, marker |-> "none"]>>
  ELSE <<>>
\* the lines of the wheel that the innermost _resolve_one has opened, and the next of them
RerunLines == RerunRequires(top.chosen[1].url.file, BytesOf(top.chosen[1].url.file))
RerunNextLine == {RerunLines[top.lines + 1]}
InitRerun ==
  /\ requirements \in RerunReqs
  /\ extra_indexes = 1
  /\ strict_hash = FALSE
  /\ follow_transitives = TRUE
  /\ retries = 1
  /\ packaging_contains = "gate"
  /\ simple_index \in RerunIndexes
  /\ pass = 1
  /\ ServerStarted
  /\ ControllerUnused
  /\ PublishNotRun
  /\ ri = 0
  /\ stack = <<>>
  /\ resolve_queue = <<>>
  /\ resolved = <<>>
  /\ seen = {}
  /\ cache = {}
  /\ fetched = <<>>
  /\ read = {}
  /\ outcome = "running"
  /\ lock = <<>>
  /\ verifier = <<>>
\* the cache directory is known whole: no file in it but those the passes wrote
Nothing == {}
RerunAttempts == {Arrives("X"), Arrives("Y"), Raises, Breaks}
NextRerun ==
  \/ ResolveAllNext
  \/ WriteOutputs
  \/ Enter
  \/ GatherUnchanged
  \/ SelectArtifact
  \/ DownloadReuse(Nothing)
  \/ DownloadAttempt(RerunAttempts)
  \/ Commit
  \/ ExpandLine(RerunNextLine, Len(RerunLines))
  \/ Return /\ top.lines = Len(RerunLines)
  \/ Rerun
SpecRerun == InitRerun /\ [][NextRerun]_vars

\* ---- the first entry point of Importresolver.py (lines 1-402): main, resolve and
\* download.  resolve takes the requirements from a queue, keeps every listed version the
\* specifier contains, prereleases included, records the digest of the bytes written and
\* reads no fragment; download asks the server whatever the cache directory holds
\* resolve, lines 159-166: the requirements are parsed and queued
resolve_start ==
  /\ outcome = "running" /\ ri = 0 /\ stack = <<>> /\ resolve_queue = <<>>
  /\ resolve_queue' = requirements
  /\ ri' = Len(requirements)
  /\ UNCHANGED <<config, pass, server, controller, cli, fetched, read, stack, resolved, seen,
                 cache, outcome, lock, verifier>>

\* resolve, lines 168-176: the head of the queue is taken; a name resolved or seen is
\* passed over
resolve_pop ==
  /\ outcome = "running" /\ ri > 0 /\ stack = <<>> /\ resolve_queue # <<>>
  /\ LET req == Head(resolve_queue)
         name_norm == canonicalize_name(req.name)
     IN /\ resolve_queue' = Tail(resolve_queue)
        /\ IF name_norm \in ResolvedNames \/ name_norm \in seen
           THEN UNCHANGED <<stack, seen>>
           ELSE /\ seen' = seen \cup {name_norm}
                /\ stack' = <<[Frame(req) EXCEPT !.pc = "gather"]>>
  /\ UNCHANGED <<config, pass, server, controller, cli, fetched, read, ri, resolved, cache,
                 outcome, lock, verifier>>

\* resolve, lines 185-228: the artifacts made of the anchors the indexes listed, those
\* left out whose version the specifier does not contain (prereleases=True) and the
\* sdists whose filename does not begin with the requirement's name, whatever the case
\* (lines 214-218); no digest is read from the href
resolve_candidates(req, answers) ==
  LET kept(c) == /\ in_range(req, c.version)
                 /\ c.is_wheel \/ c.filename.project = canonicalize_name(req.name)
      of(ans) == IF ans.status = "error" THEN <<>>
                ELSE SelectSeq([i \in 1..Len(ans.anchors) |->
                                  [Classify(ans.anchors[i]) EXCEPT !.sha256 = ""]], kept)
  IN Concat([k \in 1..Len(answers) |-> of(answers[k])])

\* resolve, lines 178-237: the listings are fetched, the greatest version kept is the
\* chosen one, and pick_artifact chooses among its artifacts
resolve_gather(listed, max_anchors) ==
  /\ Running /\ top.pc = "gather"
  /\ \E answers \in [1..(1 + extra_indexes) ->
                        IndexAnswers(listed[canonicalize_name(top.req.name)], max_anchors)] :
       LET candidates == resolve_candidates(top.req, answers)
           chosen_version == CHOOSE v \in {candidates[i].version : i \in 1..Len(candidates)} :
                               \A i \in 1..Len(candidates) : candidates[i].version <= v
           at_chosen(c) == c.version = chosen_version
           cands == SelectSeq(candidates, at_chosen)
       IN /\ fetched' = answers
          /\ IF candidates = <<>>
             THEN Fatal("No candidates found")
             ELSE /\ stack' = SetTop([top EXCEPT !.pc = "download",
                                                 !.candidates = cands,
                                                 !.versions = <<chosen_version>>,
                                                 !.chosen = pick_artifact(cands, env_tags)])
                  /\ UNCHANGED outcome
  /\ UNCHANGED <<config, pass, server, controller, cli, resolve_queue, read, ri, resolved,
                 seen, cache, lock, verifier>>

\* download, lines 93-103: one request, whatever the cache directory holds; the file is
\* opened for writing once the status is good, and an exception leaves resolve and main
download(attempts) ==
  /\ Running /\ top.pc = "download"
  /\ LET local == top.chosen[1].url.file
     IN \E att \in attempts :
          /\ cache' = IF att.bytes = "" THEN cache ELSE Written(local, att.bytes)
          /\ fetched' = <<>>
          /\ IF att.arrived
             THEN /\ stack' = SetTop(Downloaded(top, sha256_file(att.bytes)))
                  /\ UNCHANGED outcome
             ELSE Fatal("download failed")
  /\ UNCHANGED <<config, pass, server, controller, cli, resolve_queue, read, ri,
                 resolved, seen, lock, verifier>>

\* resolve, lines 242-269: the digest of the file is recorded, the package is committed,
\* and the Requires-Dist lines of a wheel that name no resolved package are queued
resolve_commit(requires_dist, max_lines) ==
  /\ Running /\ top.pc = "commit"
  /\ LET chosen == [top.chosen[1] EXCEPT !.sha256 = top.digest]
         name_norm == canonicalize_name(top.req.name)
         pkl == [name |-> name_norm,
                 version |-> chosen.version,
                 markers |-> IF top.req.marker = "none" THEN None ELSE top.req.marker,
                 artifacts |-> <<chosen>>]
         opened == /\ follow_transitives /\ chosen.is_wheel /\ marker_allows(top.req.marker)
                   /\ BytesOf(chosen.url.file) # "partial"
         queued(spec) == /\ spec # Unparseable
                         /\ marker_allows(spec.marker)
                         /\ canonicalize_name(spec.name) \notin ResolvedNames \cup {name_norm}
     IN /\ resolved' = Append(resolved, pkl)
        /\ \E lines \in IF opened THEN SeqsUpTo(requires_dist, max_lines) ELSE {<<>>} :
             /\ resolve_queue' = resolve_queue \o SelectSeq(lines, queued)
             /\ read' = read \cup {[name |-> lines[i].name, marker |-> lines[i].marker] :
                                     i \in {j \in 1..Len(lines) : lines[j] # Unparseable}}
        /\ stack' = <<>>
  /\ UNCHANGED <<config, pass, server, controller, cli, fetched, ri, seen, cache, outcome,
                 lock, verifier>>

\* main, lines 376-395: resolve has returned the packages in name order (line 271); the
\* lock and the other outputs are written
main_write_outputs ==
  /\ outcome = "running" /\ ri > 0 /\ stack = <<>> /\ resolve_queue = <<>>
  /\ lock' = InNameOrder(resolved, NameOrder)
  /\ outcome' = "ok"
  /\ UNCHANGED <<config, pass, server, controller, cli, resolve_queue, fetched, read, ri,
                 stack, resolved, seen, cache, verifier>>

\* the requirements given to this main: a, and b with a specifier or none
QueueReqs ==
  {<<[name |-> "a", op |-> "", ver |-> 0, marker |-> "none"],
     [name |-> "b", op |-> op, ver |-> IF op = "" THEN 0 ELSE 1, marker |-> "none"]>> :
     op \in {"", "<="}}
\* what the indexes can list to resolve: wheels of every version, one of them with a
\* digest in the href
QueueListed ==
  [project \in Names |->
     {Anchor(WheelName(project, v, {env_tags[2]}), "") : v \in Versions}
     \cup {Anchor(WheelName(project, 1, {env_tags[2]}), "sha256=dX")}]
\* the line a wheel can carry
QueueLines == {[name |-> "b", op |-> "", ver |-> 0, marker |-> "none"]}
\* --strict-hash and --retries are not arguments of this main; it is started twice
InitQueue == InitPass(QueueReqs, {1}, {FALSE}, {TRUE}, {0}, {"gate"})
NextQueue ==
  \/ resolve_start
  \/ resolve_pop
  \/ resolve_gather(QueueListed, MaxAnchors)
  \/ download(ArtifactAttempts)
  \/ resolve_commit(QueueLines, MaxLines)
  \/ main_write_outputs
  \/ Rerun /\ pass = 1
SpecQueue == InitQueue /\ [][NextQueue]_vars

\* ---- sdists only: a release of a project with two sdists and a prerelease with one,
\* listed in any order by one index or two
SdistReqs == {<<[name |-> "a", op |-> "", ver |-> 0, marker |-> "none"]>>}
SdistListed ==
  [project \in Names |->
     {Anchor(SdistName(project, 1), ""),
      Anchor(SdistZip(project, 1), ""),
      Anchor(SdistName(project, 2), "")}]
InitSdists == InitPass(SdistReqs, {0, 1}, {FALSE}, {FALSE}, {0}, {"gate"})
NextSdists ==
  \/ ResolveAllNext
  \/ WriteOutputs
  \/ Enter
  \/ GatherCandidates(SdistListed, MaxListed)
  \/ SelectArtifact
  \/ DownloadReuse(Whole)
  \/ DownloadAttempt(ServedOrNot)
  \/ Commit
SpecSdists == InitSdists /\ [][NextSdists]_vars

\* ---- hrefs: the sdist of a project listed under its own name, or under that name
\* with an href that ends in another
HrefListed ==
  [project \in Names |->
     {Anchor(SdistName(project, 1), ""),
      AnchorAt(SdistZip(project, 1), SdistName(project, 1), ""),
      AnchorAt(SdistZip(project, 1), SdistName(project, 1), "sha256=dX")}]
NextHrefs ==
  \/ ResolveAllNext
  \/ WriteOutputs
  \/ Enter
  \/ GatherCandidates(HrefListed, MaxListed)
  \/ SelectArtifact
  \/ DownloadReuse(Whole)
  \/ DownloadAttempt(ServedOrNot)
  \/ Commit
SpecHrefs == InitSdists /\ [][NextHrefs]_vars

\* ---- repeated requirements: the project a required twice on the command line under
\* either spelling, and wheels whose lines name any project under any spelling
RepeatReqs ==
  {<<r1, r2>> : r1, r2 \in {r \in GraphReqs : r.marker = "none" /\ canonicalize_name(r.name) = "a"}}
InitRepeats == InitPass(RepeatReqs, {0}, {FALSE}, {TRUE}, {0}, {"gate"})
RepeatLines == {r \in GraphReqs : r.marker = "none"}
NextRepeats ==
  Pass(GraphListed, MaxAnchors, Whole, ServedOrNot, RepeatLines, MaxGraphLines)
SpecRepeats == InitRepeats /\ [][NextRepeats]_vars

\* ---- the memory server: the tools called in any order by the agents of two sessions,
\* while no resolver pass runs
\* server.init
init ==
  \E session_id \in SessionIds, silo_size \in SiloSizes :
    LET stores == get_store(session_stores, session_id, silo_size)
        store == [stores[session_id][1] EXCEPT !.silo_size = silo_size]
    IN /\ session_stores' = [stores EXCEPT ![session_id] = <<store>>]
       /\ active_sessions' = [active_sessions EXCEPT ![session_id] = <<silo_size>>]
       /\ reply' = Reply("init", session_id, "", <<>>, FALSE, "initialized", <<>>, <<>>,
                         <<silo_size>>)
       /\ UNCHANGED <<promises, resolver, controller, cli>>

\* a peek that takes the store it read out of the registry: C23 does not hold of it
peek_destructive ==
  \E session_id \in SessionIds, key \in Keys :
    LET stores == get_store(session_stores, session_id, DefaultSiloSize)
    IN /\ session_stores' = drop_store(stores, session_id).stores
       /\ reply' = peek_context(key, session_id, stores[session_id][1], promises)
       /\ UNCHANGED <<active_sessions, promises, resolver, controller, cli>>

\* server.peek
peek ==
  \E session_id \in SessionIds, key \in Keys :
    LET stores == get_store(session_stores, session_id, DefaultSiloSize)
    IN /\ session_stores' = stores
       /\ reply' = peek_context(key, session_id, stores[session_id][1], promises)
       /\ UNCHANGED <<active_sessions, promises, resolver, controller, cli>>

\* server.set
set ==
  \E session_id \in SessionIds, key \in Keys, value \in Values :
    LET stores == get_store(session_stores, session_id, DefaultSiloSize)
        stored == PMMemoryStore_set(stores[session_id][1], key, value)
    IN /\ session_stores' = [stores EXCEPT ![session_id] = <<stored.store>>]
       /\ reply' = Reply("set", session_id, key, <<value>>, FALSE, "stored", <<>>,
                         <<stored.index>>, <<>>)
       /\ UNCHANGED <<active_sessions, promises, resolver, controller, cli>>

\* a resolve tool that settles the promise it is asked about: C39 does not hold of it
resolve_settling ==
  \E session_id \in SessionIds, promise_id \in Keys :
    LET promise == peek_promise(promises, promise_id)
    IN /\ reply' = IF ~promise.found
                   THEN Reply("resolve", session_id, promise_id, <<>>, FALSE, "pending",
                              <<>>, <<>>, <<>>)
                   ELSE Reply("resolve", session_id, promise_id, <<>>, FALSE,
                              promise.status, promise.payload, <<>>, <<>>)
       /\ promises' = QPromiseRegistry_resolve(promises, promise_id, "").registry
       /\ UNCHANGED <<session_stores, active_sessions, resolver, controller, cli>>

\* server.resolve
resolve ==
  \E session_id \in SessionIds, promise_id \in Keys :
    LET promise == peek_promise(promises, promise_id)
    IN /\ reply' = IF ~promise.found
                   THEN Reply("resolve", session_id, promise_id, <<>>, FALSE, "pending",
                              <<>>, <<>>, <<>>)
                   ELSE Reply("resolve", session_id, promise_id, <<>>, FALSE,
                              promise.status, promise.payload, <<>>, <<>>)
       /\ UNCHANGED <<session_stores, active_sessions, promises, resolver, controller, cli>>

\* server.flush
flush ==
  \E session_id \in SessionIds :
    LET dropped == drop_store(session_stores, session_id)
    IN /\ session_stores' = dropped.stores
       /\ active_sessions' = [active_sessions EXCEPT ![session_id] = <<>>]
       /\ reply' = Reply("flush", session_id, "", <<>>, FALSE, "flushed", <<>>, <<>>,
                         <<dropped.count>>)
       /\ UNCHANGED <<promises, resolver, controller, cli>>

\* PMMemoryStore.flush, called on the store of a session by who holds it
StoreFlush ==
  \E session_id \in SessionIds :
    /\ session_stores[session_id] # <<>>
    /\ LET flushed == PMMemoryStore_flush(session_stores[session_id][1])
       IN /\ session_stores' = [session_stores EXCEPT ![session_id] = <<flushed.store>>]
          /\ reply' = Reply("PMMemoryStore.flush", session_id, "", <<>>, FALSE, "", <<>>,
                            <<>>, <<flushed.count>>)
    /\ UNCHANGED <<active_sessions, promises, resolver, controller, cli>>

\* a resolver is constructed and its resolve_all is not called
InitServer == InitPass(RerunReqs, {0}, {FALSE}, {FALSE}, {0}, {"gate"})
NextServer ==
  \/ init
  \/ peek
  \/ set
  \/ resolve
  \/ flush
  \/ StoreFlush
SpecServer == InitServer /\ [][NextServer]_vars

\* ---- the memory server's modules used as a library: the promises registered and
\* resolved by the callers, the tools that read them, and set
\* QPromiseRegistry.register on the registry of the server
register_in(ids) ==
  \E promise_id \in ids :
    /\ promises' = QPromiseRegistry_register(promises, promise_id)
    /\ reply' = Reply("QPromiseRegistry.register", "", promise_id, <<>>, FALSE, "", <<>>,
                      <<>>, <<>>)
    /\ UNCHANGED <<session_stores, active_sessions, resolver, controller, cli>>
register == register_in(PromiseIds)

\* QPromiseRegistry.resolve on the registry of the server; the boolean returned is the hit
QPromiseRegistry_resolve_in(ids) ==
  \E promise_id \in ids, payload \in Payloads :
    LET resolving == QPromiseRegistry_resolve(promises, promise_id, payload)
    IN /\ promises' = resolving.registry
       /\ reply' = Reply("QPromiseRegistry.resolve", "", promise_id, <<payload>>,
                         resolving.found, "", <<>>, <<>>, <<>>)
       /\ UNCHANGED <<session_stores, active_sessions, resolver, controller, cli>>
QPromiseRegistry_resolve_call == QPromiseRegistry_resolve_in(PromiseIds)

NextRegistry ==
  \/ peek
  \/ set
  \/ resolve
  \/ register
  \/ QPromiseRegistry_resolve_call
SpecRegistry == InitServer /\ [][NextRegistry]_vars

\* ---- the five tools of the server called in any order by the agent of one session,
\* while callers of the library register and resolve promises
\* the call that has just returned was made for the first session, or for none
OneAgent == reply'.session_id # "s2"
NextTools ==
  \/ init /\ OneAgent
  \/ peek /\ OneAgent
  \/ set /\ OneAgent
  \/ resolve /\ OneAgent
  \/ flush /\ OneAgent
  \/ register
  \/ QPromiseRegistry_resolve_call
SpecTools == InitServer /\ [][NextTools]_vars

\* ---- the promise registry: any id registered and resolved, and read by the tools of
\* the agent of one session
NextPromises ==
  \/ register_in(Keys)
  \/ QPromiseRegistry_resolve_in(Keys)
  \/ resolve /\ OneAgent
  \/ peek /\ OneAgent
  \/ set /\ OneAgent
SpecPromises == InitServer /\ [][NextPromises]_vars

\* ================================================================ properties

\* C1, as the specification states it: when the listing advertises a sha256 for
\* the chosen artifact and the file in the cache (downloaded or found there) has
\* another digest, the pass ends in a fatal error and no lock is written.
\* _resolve_one keeps the advertised value and goes on (line 857).
C1_HintMismatchIsFatal ==
  [][(/\ Running /\ top.pc = "commit"
      /\ top.chosen[1].sha256 # ""
      /\ top.chosen[1].sha256 # top.digest)
     => (outcome' \notin {"running", "ok"} /\ lock' = <<>>)]_vars

\* C2, as the specification states it: after a successful pass every locked
\* artifact's sha256 is the digest of its file in the cache, or is empty and
\* strict_hash is off.  An advertised sha256 is locked as it was advertised.
C2_LockedDigestIsFileDigest ==
  outcome = "ok" =>
    \A a \in LockedArtifacts(lock) :
      \/ a.sha256 = sha256_file(BytesOf(a.filename))
      \/ a.sha256 = "" /\ ~strict_hash

\* C3: greedy commit.  A step of the pass never changes or removes an entry of the
\* resolved map and never gives a canonical name a second entry, whatever the
\* requirement that is being resolved.
C3_GreedyCommit ==
  [][/\ Len(resolved') >= Len(resolved)
     /\ \A k \in 1..Len(resolved) : resolved'[k] = resolved[k]
     /\ \A i, j \in 1..Len(resolved') :
          resolved'[i].name = resolved'[j].name => i = j]_vars

\* C3's case: the pass has ended well although a direct requirement asks for a
\* range that the version committed for its name is not in
C3_LaterRequirementIgnored ==
  /\ outcome = "ok"
  /\ \E i \in 1..Len(requirements) :
       /\ canonicalize_name(requirements[i].name) \in ResolvedNames
       /\ ~in_range(requirements[i], LockOf(canonicalize_name(requirements[i].name)).version)

\* C4, as the specification states it: requirements are committed in order of
\* arrival, the direct ones ahead of every transitive one, so that the first direct
\* requirement that names a package decides its version.  _resolve_one follows a
\* wheel's Requires-Dist lines before resolve_all reaches the next direct requirement.
C4_DirectRequirementDecides ==
  outcome = "ok" =>
    \A i \in 1..Len(requirements) :
      LET r == requirements[i]
          cn == canonicalize_name(r.name)
          first == \A j \in 1..(i - 1) :
                     \/ canonicalize_name(requirements[j].name) # cn
                     \/ requirements[j].marker \notin {"none", "true"}
      IN (r.marker \in {"none", "true"} /\ first) => in_range(r, LockOf(cn).version)

\* C5: the version chosen for a requirement is listed, is in the range of the
\* requirement's specifier, and is the greatest such version but for prereleases
\* that the policy sets aside: a greater listed version in the range is a
\* prerelease, the specifier names none, and the chosen version is stable.
C5_GreatestPermittedVersion ==
  \A k \in 1..Len(stack) :
    stack[k].pc = "download" =>
      LET f == stack[k]
          v == f.chosen[1].version
          listed == {f.candidates[i].version : i \in 1..Len(f.candidates)}
      IN /\ v \in listed
         /\ in_range(f.req, v)
         /\ \A w \in listed :
              (in_range(f.req, w) /\ w > v) =>
                (is_prerelease(w) /\ ~specifier_prereleases(f.req) /\ ~is_prerelease(v))

\* C5's case: a specifier is given, the indexes list two versions in its range, the
\* smaller one last, and the selector has chosen
C5_ChosenAmongSeveral ==
  \E k \in 1..Len(stack) :
    /\ stack[k].pc = "download"
    /\ stack[k].req.op # ""
    /\ Len(stack[k].candidates) = 2
    /\ stack[k].candidates[2].version < stack[k].chosen[1].version
    /\ in_range(stack[k].req, stack[k].candidates[2].version)

\* C6, as the specification states it: a prerelease is chosen only if the specifier
\* names a prerelease or no stable version is in its range, and when the versions
\* in the range are all prereleases the selector succeeds with the greatest of them.
\* With a packaging whose contains() refuses prereleases the selector finds nothing.
C6_PrereleasePolicy ==
  [][(Running /\ top.pc = "select") =>
       LET sat == {v \in {top.versions[i] : i \in 1..Len(top.versions)} :
                     in_range(top.req, v)}
           chose == outcome' = "running" /\ stack'[Len(stack')].pc = "download"
           v == stack'[Len(stack')].chosen[1].version
       IN /\ (chose /\ is_prerelease(v)) =>
               (specifier_prereleases(top.req) \/ \A w \in sat : is_prerelease(w))
          /\ (sat # {} /\ \A w \in sat : is_prerelease(w)) =>
               (chose /\ \A w \in sat : w <= v)]_vars

\* C7: among the artifacts of the chosen version a wheel is taken before an sdist,
\* and among the wheels one whose tag is earliest in the environment's order; a
\* wheel with no matching tag is taken only if no wheel of the version has one.
C7_WheelAndTagPreference ==
  \A k \in 1..Len(stack) :
    stack[k].pc = "download" =>
      LET f == stack[k]
          c == f.chosen[1]
          cands == {f.candidates[i] : i \in {i \in 1..Len(f.candidates) :
                                               f.candidates[i].version = c.version}}
          wheels == {w \in cands : w.is_wheel}
      IN /\ c \in cands
         /\ wheels # {} => c.is_wheel
         /\ \A w \in wheels :
              w.tag # None =>
                /\ c.tag # None
                /\ \E i, j \in 1..Len(env_tags) :
                     env_tags[i] = c.tag /\ env_tags[j] = w.tag /\ i <= j

\* C7's case: a wheel with no matching tag is listed first, a wheel with a matching
\* tag and an sdist follow or precede, and the selector has chosen
C7_ChosenPastUnmatchedWheel ==
  \E k \in 1..Len(stack) :
    /\ stack[k].pc = "download"
    /\ stack[k].chosen[1].tag # None
    /\ stack[k].candidates[1].is_wheel
    /\ stack[k].candidates[1].tag = None

\* C8, as the specification states it: the generated verifier exits 0 only if every
\* locked artifact has a tag of the host (when it records one), its cache file
\* exists and the file's digest is the recorded one; otherwise it exits 2.
\* The generated module does not load when the lock holds an artifact, and its
\* verify() prints "missing cache" and leaves its flag alone.
C8_VerifierExitCode ==
  verifier # <<>> =>
    LET run == verifier[1]
        good(a) == /\ a.tag = None \/ a.tag \in run.tags
                   /\ run.files[a.filename] # Missing
                   /\ sha256_file(run.files[a.filename]) = a.sha256
        all_good == \A a \in LockedArtifacts(lock) : good(a)
    IN run.code = IF all_good THEN 0 ELSE 2

\* how far a frame of _resolve_one is from returning, in steps it can still take
C9_FrameRank(f) ==
  LET commit_rank == 2 + 2 * MaxGraphLines
      gather_rank == commit_rank + request_retries + 3
  IN CASE f.pc = "enter" -> 1
       [] f.pc = "gather" -> gather_rank
       [] f.pc = "select" -> gather_rank - 1
       [] f.pc = "download" -> commit_rank + 1 + (request_retries - f.attempt)
       [] f.pc = "commit" -> commit_rank
       [] OTHER -> 1 + 2 * (MaxGraphLines - f.lines)
\* the rank of a state of the pass
C9_Rank(st, sn, r, o) ==
  LET sum[k \in 0..Len(st)] == IF k = 0 THEN 0 ELSE sum[k - 1] + C9_FrameRank(st[k])
  IN 2 * (Len(requirements) - r)
     + (2 * MaxGraphLines + request_retries + 6) * (Cardinality(Names) - Cardinality(sn))
     + sum[Len(st)]
     + (IF o = "running" THEN 1 ELSE 0)
\* C9: the pass terminates, cycles and self-dependencies included.  Every step
\* lowers a rank that is never negative: the requirements left to resolve_all, the
\* names not yet seen, and for each frame of _resolve_one how far it is from
\* returning; writing the outputs and failing are the last steps.
C9_PassTerminates ==
  [][/\ C9_Rank(stack', seen', ri', outcome') < C9_Rank(stack, seen, ri, outcome)
     /\ C9_Rank(stack', seen', ri', outcome') >= 0]_vars

\* C9's case: a wheel has named the package the pass started from (the package
\* itself, or one it depends on), and the pass has ended well
C9_CycleResolved ==
  /\ outcome = "ok"
  /\ \E l \in read :
       /\ canonicalize_name(l.name) = canonicalize_name(requirements[1].name)
       /\ l.marker \in {"none", "true"}
  /\ Len(lock) >= 2

\* C10: a name is resolved, and so locked, only if a direct requirement reached by
\* resolve_all names it with no marker or a true one, or a Requires-Dist line read
\* from a resolved wheel names it with no marker or a true one.
C10_MarkerGatesResolution ==
  \A n \in ResolvedNames \cup {lock[k].name : k \in 1..Len(lock)} :
    \/ \E i \in 1..ri : /\ canonicalize_name(requirements[i].name) = n
                          /\ requirements[i].marker \in {"none", "true"}
    \/ \E l \in read : /\ canonicalize_name(l.name) = n
                        /\ l.marker \in {"none", "true"}

\* C10's case: the pass has ended well, a wheel it locked has a line whose marker is
\* false or fails, and the package of that line is not in the lock
C10_ExcludedLineNotLocked ==
  /\ outcome = "ok"
  /\ \E l \in read :
       /\ l.marker \in {"false", "error"}
       /\ canonicalize_name(l.name) \notin {lock[k].name : k \in 1..Len(lock)}

\* the canonical names of the direct requirements whose markers allow
DirectNames ==
  {canonicalize_name(requirements[k].name) :
     k \in {j \in 1..Len(requirements) : marker_allows(requirements[j].marker)}}

\* C11: the Requires-Dist lines of a chosen artifact are read only when
\* follow_transitives is true and the artifact is a wheel.  A call of _resolve_one
\* has a call below it only while it is in its loop over the lines, and it is in
\* that loop only for a wheel with follow_transitives set; with follow_transitives
\* false, or when every locked artifact is an sdist, the lock holds exactly the
\* names of the direct requirements whose markers allow.
C11_TransitivesOnlyFromWheels ==
  /\ \A k \in 1..Len(stack) :
       /\ stack[k].pc = "expand" =>
            follow_transitives /\ stack[k].chosen[1].is_wheel
       /\ k < Len(stack) => stack[k].pc = "expand"
  /\ ~follow_transitives => read = {}
  /\ (outcome = "ok" /\ (~follow_transitives \/ \A a \in LockedArtifacts(lock) : ~a.is_wheel))
       => {lock[k].name : k \in 1..Len(lock)} = DirectNames

\* C11 witness: with follow_transitives set, a pass ends with a package locked to an
\* sdist, whose dependencies were not looked at
C11_SdistNotExpanded ==
  /\ outcome = "ok" /\ follow_transitives
  /\ Len(lock) = 1 /\ ~lock[1].artifacts[1].is_wheel
  /\ read = {}

\* C12: a listing fetch that fails on one index does not abort the pass.  Once
\* _gather_candidates has asked every index, the pass fails with "No candidates
\* found" only if no index listed anything; otherwise it goes on with exactly the
\* files that the indexes that answered have listed, the failed ones adding none.
C12_FailedIndexAbsorbed ==
  LET answered == {k \in 1..Len(fetched) : fetched[k].status = "ok"}
      files == UNION {{fetched[k].anchors[i].text : i \in 1..Len(fetched[k].anchors)} :
                        k \in answered}
  IN /\ outcome = "No candidates found" => files = {}
     /\ (Running /\ top.pc = "select") =>
          /\ files # {}
          /\ {top.candidates[i].filename : i \in 1..Len(top.candidates)} = files
          /\ \A k \in 1..Len(fetched) :
               fetched[k].status = "error" => fetched[k].anchors = <<>>

\* C12 witness: the fetch from the primary index has failed, and the pass goes on
\* with what the extra index lists
C12_ResolvedFromOtherIndex ==
  /\ Running /\ top.pc = "select"
  /\ Len(fetched) = 2
  /\ fetched[1].status = "error"
  /\ top.candidates # <<>>

\* C13: a direct requirement for which no index lists an artifact, or no listed
\* version is inside its specifier, ends the pass with a fatal error and nothing
\* is committed for its name.  The requirement is the one whose listing
\* _resolve_one asks for (lines 839-845); the message is known by its kind.
C13_UnsatisfiableIsFatal ==
  [][(Running /\ Len(stack) = 1) =>
       LET name_norm == canonicalize_name(top.req.name)
           nothing == name_norm \notin {resolved'[k].name : k \in 1..Len(resolved')}
                      /\ lock' = <<>>
       IN /\ (top.pc = "gather"
               /\ \A k \in 1..Len(fetched') : fetched'[k].anchors = <<>>)
             => (outcome' = "No candidates found" /\ nothing)
          /\ (top.pc = "select"
               /\ \A i \in 1..Len(top.versions) : ~in_range(top.req, top.versions[i]))
             => (outcome' = "No versions satisfy specifier" /\ nothing)
    ]_vars

\* C13 witness: the second direct requirement has a specifier that no listed
\* version is inside, and the pass has failed on it
C13_DirectRequirementFailed ==
  /\ outcome = "No versions satisfy specifier"
  /\ ri = 2 /\ requirements[2].op # ""
  /\ canonicalize_name(requirements[2].name) \notin ResolvedNames
  /\ \E k \in 1..Len(fetched) : fetched[k].anchors # <<>>
  /\ \A k \in 1..Len(fetched) : \A i \in 1..Len(fetched[k].anchors) :
       ~in_range(requirements[2], fetched[k].anchors[i].text.version)

\* C15: one artifact download makes at most retries + 1 attempts, a negative
\* setting counting as 0.  A step of _download either returns to _resolve_one, or
\* goes to the next attempt while attempts are left, or is fatal at the last
\* attempt; and once a download has failed the pass takes no further step.
C15_BoundedRetries ==
  [][/\ outcome # "download failed"
     /\ (Running /\ top.pc = "download") =>
          /\ top.attempt <= (IF retries < 0 THEN 0 ELSE retries)
          /\ \/ /\ Len(stack') = Len(stack)
                /\ top'.pc = "commit"
             \/ /\ Len(stack') = Len(stack)
                /\ top'.pc = "download"
                /\ top'.attempt = top.attempt + 1
                /\ top.attempt < (IF retries < 0 THEN 0 ELSE retries)
             \/ /\ outcome' = "download failed"
                /\ top.attempt = (IF retries < 0 THEN 0 ELSE retries)
    ]_vars

\* C15 witness: with --retries 1 a stream has broken, part of the file is in the
\* cache, and the pass has failed on the download
C15_DownloadFailedAfterRetries ==
  /\ outcome = "download failed"
  /\ retries = 1
  /\ \E e \in cache : e.bytes = "partial"

\* C17: the packages of the lock are in ascending order of canonical name, no name
\* twice, whatever the order and the spelling of the requirements that brought
\* them in; each package has exactly one artifact.
C17_LockSortedUnique ==
  LET pos(n) == CHOOSE i \in 1..Len(NameOrder) : NameOrder[i] = n
  IN /\ \A k \in 1..Len(lock) :
          /\ lock[k].name \in Names
          /\ Len(lock[k].artifacts) = 1
     /\ \A i, j \in 1..Len(lock) : i < j => pos(lock[i].name) < pos(lock[j].name)
     /\ outcome = "ok" =>
          {lock[k].name : k \in 1..Len(lock)} = ResolvedNames

\* C17 witness: a package was brought in under the spelling "A" by the wheel of a
\* package that sorts after it, and the lock lists them in name order
C17_SortedAgainstInsertion ==
  /\ outcome = "ok"
  /\ Len(lock) >= 2
  /\ resolved # lock
  /\ \E l \in read : l.name = "A"

\* C18: when the pass aborts on a fatal error no output is written.  lock.json and
\* the outputs written with it (lines 932-941) exist only after resolve_all has
\* consumed every requirement and every call of _resolve_one has returned; while
\* the pass runs, and after it has failed, there is none.
C18_NoOutputOnFailure ==
  /\ outcome # "ok" => lock = <<>>
  /\ outcome = "ok" =>
       /\ ri = Len(requirements)
       /\ stack = <<>>
       /\ DirectNames \subseteq {lock[k].name : k \in 1..Len(lock)}

\* C18 witness: the first requirement is committed, the second has no version
\* inside its specifier, and the pass has failed with nothing written
C18_FailedAfterCommit ==
  /\ outcome \notin {"running", "ok"}
  /\ resolved # <<>>
  /\ ri = 2
  /\ lock = <<>>

\* C14: when the cache holds a file of the artifact's name as _download is called,
\* the step makes no request and leaves the cache as it is: _download returns the
\* digest of the bytes that are there, a partial file included, and the pass goes
\* on to record it.
C14_CachedFileIsAuthoritative ==
  [][(Running /\ top.pc = "download" /\ top.attempt = 0
      /\ top.chosen[1].url.file \in CachedFiles) =>
       /\ cache' = cache
       /\ outcome' = outcome
       /\ stack' = SetTop(Downloaded(top, sha256_file(BytesOf(top.chosen[1].url.file))))
    ]_vars

\* C14 witness: a pass has failed on a download that left part of a file, and a
\* later pass has locked the digest of that partial file
C14_PartialFileRecorded ==
  /\ pass > 1
  /\ outcome = "ok"
  /\ \E a \in LockedArtifacts(lock) :
       /\ a.sha256 = sha256_file("partial")
       /\ BytesOf(a.filename) = "partial"

\* the artifact _resolve_one chooses for a requirement over the listings `index`, none
\* when the listings or the specifier leave nothing
choice_of(req, index) ==
  LET candidates == gather_candidates(index[canonicalize_name(req.name)])
      versions == preferred_versions(req, [i \in 1..Len(candidates) |-> candidates[i].version],
                                     packaging_contains)
      at_best(c) == c.version = versions[Len(versions)]
  IN IF versions = <<>> THEN <<>>
     ELSE pick_artifact(SelectSeq(candidates, at_best), env_tags)

\* the packages a pass commits, in the order it commits them, as a function of what it
\* is given: resolve_one_of is self.resolved after _resolve_one(req) entered with
\* self.resolved = done, the indexes answering `index` and the cache directory holding
\* `files` when the pass has ended; resolve_lines_of is the same after the lines of a wheel
RECURSIVE resolve_one_of(_, _, _, _)
RECURSIVE resolve_lines_of(_, _, _, _)
resolve_one_of(req, done, index, files) ==
  LET name_norm == canonicalize_name(req.name)
      chosen == choice_of(req, index)
      local == chosen[1].url.file
      bytes == (CHOOSE e \in files : e.file = local).bytes
      artifact == [chosen[1] EXCEPT
                     !.sha256 = IF chosen[1].sha256 # "" THEN chosen[1].sha256
                                ELSE sha256_file(bytes)]
      pkl == [name |-> name_norm,
              version |-> artifact.version,
              markers |-> IF req.marker = "none" THEN None ELSE req.marker,
              artifacts |-> <<artifact>>]
  IN IF \E k \in 1..Len(done) : done[k].name = name_norm THEN done
     ELSE IF chosen = <<>> THEN done
     ELSE IF \A e \in files : e.file # local THEN done
     ELSE IF follow_transitives /\ artifact.is_wheel /\ marker_allows(req.marker)
     THEN resolve_lines_of(RerunRequires(local, bytes), Append(done, pkl), index, files)
     ELSE Append(done, pkl)
resolve_lines_of(lines, done, index, files) ==
  IF lines = <<>> THEN done
  ELSE resolve_lines_of(Tail(lines),
                        IF marker_allows(Head(lines).marker)
                        THEN resolve_one_of(Head(lines), done, index, files)
                        ELSE done,
                        index, files)
\* lock.json as a function of the requirements, the listings and the cache directory
lock_of(reqs, index, files) ==
  LET after[i \in 0..Len(reqs)] ==
        IF i = 0 THEN <<>>
        ELSE IF marker_allows(reqs[i].marker)
        THEN resolve_one_of(reqs[i], after[i - 1], index, files)
        ELSE after[i - 1]
  IN InNameOrder(after[Len(reqs)], NameOrder)

\* C16: the lock a pass writes is decided by the requirements, by what the indexes
\* list and by the files of the cache directory, whatever the requests of the pass met
\* and whatever the passes before it did: it is lock_of of the three.  A pass changes no
\* file that it finds in the cache directory (it rewrites only a file that an attempt of
\* its own has left).  So a pass run again over the same listings and the cache
\* directory that a completed pass has left does not fail, and writes the lock that is
\* there already.
C16_RerunWritesSameLock ==
  [][/\ (outcome = "running" /\ outcome' = "ok") =>
          /\ lock' = lock_of(requirements, simple_index, cache)
          /\ (pass > 1 /\ lock # <<>>) => lock' = lock
     /\ \A e \in cache :
          \/ e \in cache'
          \/ /\ Running /\ top.pc = "download" /\ top.attempt > 0
             /\ e.file = top.chosen[1].url.file
     /\ (lock # <<>> /\ outcome = "running") => outcome' \in {"running", "ok"}]_vars

\* C16 witness: a pass has failed leaving part of a file, a second pass has locked three
\* packages, the third of them required by a wheel, and one more pass is about to write
\* its outputs; the two indexes list the same wheel of a, once with a digest in the href
\* and once without
C16_SecondPassCompletes ==
  /\ pass > 2
  /\ Len(lock) = 3
  /\ outcome = "running" /\ stack = <<>> /\ ri = Len(requirements)
  /\ Len(resolved) = 3
  /\ \E a \in LockedArtifacts(lock) : BytesOf(a.url.file) = "partial"
  /\ Len(simple_index["a"][1].anchors) = 1
  /\ Len(simple_index["a"][2].anchors) = 1
  /\ simple_index["a"][1].anchors[1].text = simple_index["a"][2].anchors[1].text
  /\ simple_index["a"][1].anchors[1].href.fragment
       # simple_index["a"][2].anchors[1].href.fragment

\* ---- the memory controller: every `with self._lock` block is one step
\* MemoryController.write
write ==
  \E pid \in Pids, ttl_s \in TTLs :
    /\ Len(written) < MaxWrites
    /\ LET p == Promise(pid, DataOrder[Len(written) + 1], ttl_s, clock)
       IN /\ promise_queue' = Append(promise_queue, p)
          /\ written' = Append(written, p)
    /\ answer' = Answer("write", "", <<pid>>, <<>>, <<>>)
    /\ UNCHANGED <<pool_size, pool, clock, processing, returned, resolver, server, cli>>

\* MemoryController.read_slot
read_slot ==
  \E slot \in SlotsRead :
    /\ answer' = Answer("read_slot", "", <<slot>>, read_slot_of(pool_size, pool, slot), <<>>)
    /\ UNCHANGED <<pool_size, pool, promise_queue, clock, processing, written, returned,
                   resolver, server, cli>>

\* time passes
Tick ==
  /\ clock < MaxClock
  /\ clock' = clock + 1
  /\ UNCHANGED <<pool_size, pool, promise_queue, processing, written, returned, answer,
                 resolver, server, cli>>

\* process_promises leaving in the queue what it takes: C28 does not hold of it
process_promises_take_keeping ==
  \E t \in Threads :
    /\ processing[t] = <<>>
    /\ processing' = [processing EXCEPT ![t] = <<promise_queue>>]
    /\ UNCHANGED <<pool_size, pool, promise_queue, clock, written, returned, answer,
                   resolver, server, cli>>

\* process_promises, its first block: queue = self._promise_queue[:] and clear()
process_promises_take ==
  \E t \in Threads :
    /\ processing[t] = <<>>
    /\ processing' = [processing EXCEPT ![t] = <<promise_queue>>]
    /\ promise_queue' = <<>>
    /\ UNCHANGED <<pool_size, pool, clock, written, returned, answer, resolver, server,
                   cli>>

\* process_promises, its second block and its return: the loop reads the time at each
\* promise, and the clock is where the last read found it
process_promises_commit ==
  \E t \in Threads :
    /\ processing[t] # <<>>
    /\ \E times \in Readings(Len(processing[t][1]), clock) :
         LET done == process_loop(pool_size, pool, processing[t][1], times)
         IN /\ pool' = done.pool
            /\ returned' = returned + done.committed
            /\ answer' = Answer("process_promises", t, times, <<>>, <<done.committed>>)
            /\ clock' = IF times = <<>> THEN clock ELSE times[Len(times)]
    /\ processing' = [processing EXCEPT ![t] = <<>>]
    /\ UNCHANGED <<pool_size, promise_queue, written, resolver, server, cli>>

\* MemoryController.__init__, beside a resolver that is constructed and a server started
InitController ==
  /\ requirements \in RerunReqs
  /\ extra_indexes = 0
  /\ strict_hash = FALSE
  /\ follow_transitives = FALSE
  /\ retries = 0
  /\ packaging_contains = "gate"
  /\ simple_index = <<>>
  /\ pass = 1
  /\ ServerStarted
  /\ PublishNotRun
  /\ ri = 0
  /\ stack = <<>>
  /\ resolve_queue = <<>>
  /\ resolved = <<>>
  /\ seen = {}
  /\ cache = {}
  /\ fetched = <<>>
  /\ read = {}
  /\ outcome = "running"
  /\ lock = <<>>
  /\ verifier = <<>>
  /\ pool_size \in PoolSizes
  /\ pool = [i \in 1..pool_size |-> <<>>]
  /\ promise_queue = <<>>
  /\ clock = 0
  /\ processing = [t \in Threads |-> <<>>]
  /\ written = <<>>
  /\ returned = 0
  /\ answer = NoAnswer
\* one thread calls process_promises; writes and reads of other threads come between its
\* two blocks
OneCaller == processing'["t2"] = <<>>
NextController ==
  \/ write
  \/ process_promises_take /\ OneCaller
  \/ process_promises_commit
  \/ read_slot
  \/ Tick
SpecController == InitController /\ [][NextController]_vars

\* ---- the memory controller, process_promises called by several threads, the writes
\* with the pids 0 and 1
LowPid == answer'.given[1] <= 1
NextThreads ==
  \/ write /\ LowPid
  \/ process_promises_take
  \/ process_promises_commit
  \/ Tick
SpecThreads == InitController /\ [][NextThreads]_vars

\* ---- the memory controller, called by several threads, clear among the calls
\* MemoryController.clear: one block under the lock
clear ==
  /\ pool' = [i \in 1..pool_size |-> <<>>]
  /\ promise_queue' = <<>>
  /\ answer' = Answer("clear", "", <<>>, <<>>, <<>>)
  /\ UNCHANGED <<pool_size, clock, processing, written, returned, resolver, server, cli>>

NextClear ==
  \/ write
  \/ process_promises_take
  \/ process_promises_commit
  \/ clear
SpecClear == InitController /\ [][NextClear]_vars

\* ---- ppm publish
\* cmd_publish up to the loop over the wheels: the exits without an upload
cmd_publish ==
  /\ publish.pc = "idle"
  /\ LET registry == registry_of(publish_args)
         token == token_of(publish_args)
         wheels == discover_wheels(publish_args.wheelhouse)
     IN publish' =
          IF registry = "" \/ token = ""
          THEN [publish EXCEPT !.pc = "exited", !.exit = <<1>>]
          ELSE IF wheels = <<>>
          THEN [publish EXCEPT !.pc = "exited", !.exit = <<0>>,
                               !.registry = registry, !.token = token]
          ELSE [publish EXCEPT !.pc = "uploading", !.wheels = wheels,
                               !.registry = registry, !.token = token]
  /\ UNCHANGED <<publish_args, resolver, server, controller>>

\* the body of the loop for the next wheel: the request and how urlopen ends; an
\* exception that is neither HTTPError nor URLError leaves cmd_publish and the interpreter
upload ==
  \E ended \in UploadOutcomes :
    /\ publish.pc = "uploading"
    /\ Len(publish.uploads) < Len(publish.wheels)
    /\ LET whl == publish.wheels[Len(publish.uploads) + 1]
           sent == Append(publish.uploads, [file |-> whl, outcome |-> ended])
       IN publish' =
            IF ended = "ok"
            THEN [publish EXCEPT !.uploads = sent, !.ok_count = @ + 1]
            ELSE IF ended \in {"HTTPError", "URLError"}
            THEN [publish EXCEPT !.uploads = sent, !.fail_count = @ + 1]
            ELSE [publish EXCEPT !.uploads = sent, !.pc = "exited", !.exit = <<1>>]
    /\ UNCHANGED <<publish_args, resolver, server, controller>>

\* after the loop: sys.exit(1) if an upload failed, else the return of main
cmd_publish_end ==
  /\ publish.pc = "uploading"
  /\ Len(publish.uploads) = Len(publish.wheels)
  /\ publish' = [publish EXCEPT !.pc = "exited",
                                !.exit = IF publish.fail_count > 0 THEN <<1>> ELSE <<0>>]
  /\ UNCHANGED <<publish_args, resolver, server, controller>>

InitPublish ==
  /\ requirements \in RerunReqs
  /\ extra_indexes = 0
  /\ strict_hash = FALSE
  /\ follow_transitives = FALSE
  /\ retries = 0
  /\ packaging_contains = "gate"
  /\ simple_index = <<>>
  /\ pass = 1
  /\ ServerStarted
  /\ ControllerUnused
  /\ ri = 0
  /\ stack = <<>>
  /\ resolve_queue = <<>>
  /\ resolved = <<>>
  /\ seen = {}
  /\ cache = {}
  /\ fetched = <<>>
  /\ read = {}
  /\ outcome = "running"
  /\ lock = <<>>
  /\ verifier = <<>>
  /\ publish_args \in PublishArgs
  /\ publish = PublishIdle
NextPublish ==
  \/ cmd_publish
  \/ upload
  \/ cmd_publish_end
SpecPublish == InitPublish /\ [][NextPublish]_vars

\* ------------------------------------------------ the memory server's properties
\* len(store): the number of keys the session has stored, none without a store
stored_keys(stores, session_id) ==
  IF stores[session_id] = <<>> THEN 0 ELSE Len(stores[session_id][1].slots)
\* what PMMemoryStore.peek returns for the key in the session, a miss without a store
silo_peek(stores, session_id, key) ==
  IF stores[session_id] = <<>>
  THEN [hit |-> FALSE, value |-> <<>>, index |-> <<>>]
  ELSE PMMemoryStore_peek(stores[session_id][1], key)

\* C19: set on a key not stored returns the number of keys stored before as its index; set
\* on a stored key returns the index the key had; after a set, PMMemoryStore.peek of the
\* key gives (True, the value just set, the index returned). A peek returns what the
\* store holds; a flush of the session leaves a miss for every key; no other call changes
\* what peek gives for a key of the session, and no call changes the store of a session
\* it is not made on; before any call every key is missed.
C19_SetAllocatesPeekReturns ==
  [][\A session_id \in SessionIds :
       IF reply'.session_id # session_id
       THEN session_stores'[session_id] = session_stores[session_id]
       ELSE \A key \in Keys :
         LET before == silo_peek(session_stores, session_id, key)
             after == silo_peek(session_stores', session_id, key)
         IN /\ reply = NoReply => ~before.hit
            /\ IF reply'.tool = "set" /\ reply'.key = key
               THEN /\ ~before.hit =>
                         reply'.index = <<stored_keys(session_stores, session_id)>>
                    /\ before.hit => reply'.index = before.index
                    /\ after = [hit |-> TRUE, value |-> reply'.arg, index |-> reply'.index]
               ELSE IF reply'.tool \in {"flush", "PMMemoryStore.flush"}
               THEN ~after.hit
               ELSE after = before
            /\ (reply'.tool = "peek" /\ reply'.key = key /\ reply'.status = "") =>
                 /\ reply'.hit = before.hit
                 /\ reply'.value = before.value
                 /\ reply'.index = before.index]_vars
\* a set on the first of two stored keys has replaced its value and returned index 0
C19_StoredKeySetAgain ==
  \E session_id \in SessionIds :
    /\ reply.tool = "set"
    /\ reply.session_id = session_id
    /\ reply.index = <<0>>
    /\ reply.arg = <<"w">>
    /\ stored_keys(session_stores, session_id) = 2
    /\ silo_peek(session_stores, session_id, reply.key).value = <<"w">>

\* what a call of peek, set or flush returns, worked out from the store of its own session
\* and the promises alone; the call is given by the reply that relates it
own_result(stores, promise_registry, call) ==
  LET session_id == call.session_id
      store == get_store([s \in SessionIds |-> IF s = session_id THEN stores[s] ELSE <<>>],
                         session_id, DefaultSiloSize)[session_id][1]
  IN IF call.tool = "peek"
     THEN peek_context(call.key, session_id, store, promise_registry)
     ELSE IF call.tool = "set"
     THEN Reply("set", session_id, call.key, call.arg, FALSE, "stored", <<>>,
                <<PMMemoryStore_set(store, call.key, call.arg[1]).index>>, <<>>)
     ELSE Reply("flush", session_id, "", <<>>, FALSE, "flushed", <<>>, <<>>,
                <<stored_keys(stores, session_id)>>)

\* C20: an init, set, peek or flush of one session leaves the store of every other session,
\* its entry among the active sessions and the promises as they were; and what a peek, set
\* or flush returns is decided by the store of its own session and the promises. So no
\* calls of one session change what a call of another returns.
C20_SessionIsolation ==
  [][/\ \A B \in SessionIds :
          (reply'.session_id # B
             /\ reply'.tool \in {"init", "set", "peek", "flush", "PMMemoryStore.flush"}) =>
            /\ session_stores'[B] = session_stores[B]
            /\ active_sessions'[B] = active_sessions[B]
            /\ promises' = promises
     /\ reply'.tool \in {"peek", "set", "flush"} =>
           reply' = own_result(session_stores, promises, reply')]_vars
\* a session that stored a key was flushed while another session held two keys
C20_FlushedBesideAnother ==
  \E A \in SessionIds, B \in SessionIds :
    /\ A # B
    /\ reply.tool = "flush"
    /\ reply.session_id = A
    /\ reply.count = <<1>>
    /\ session_stores[A] = <<>>
    /\ stored_keys(session_stores, B) = 2
    /\ active_sessions[B] # <<>>

\* what the peek tool returns to the session for the key: get_store, then peek_context
peek_now(stores, promise_registry, session_id, key) ==
  peek_context(key, session_id,
               get_store(stores, session_id, DefaultSiloSize)[session_id][1],
               promise_registry)

\* C21: the flush tool returns the number of keys the session holds, 0 when it has no
\* store; after it the session has no store and is not active, and the peek tool misses
\* every key of the session. While a session holds no key, only a set on it ends that,
\* and that set returns index 0.
C21_FlushClearsSession ==
  [][\A session_id \in SessionIds :
       /\ (reply'.tool = "flush" /\ reply'.session_id = session_id) =>
            /\ reply'.status = "flushed"
            /\ reply'.count = <<stored_keys(session_stores, session_id)>>
            /\ session_stores'[session_id] = <<>>
            /\ active_sessions'[session_id] = <<>>
            /\ \A key \in Keys :
                 ~peek_now(session_stores', promises', session_id, key).hit
       /\ stored_keys(session_stores, session_id) = 0 =>
            IF reply'.tool = "set" /\ reply'.session_id = session_id
            THEN reply'.index = <<0>>
            ELSE /\ stored_keys(session_stores', session_id) = 0
                 /\ \A key \in Keys :
                      ~peek_now(session_stores', promises', session_id, key).hit]_vars
\* a session that held every key was flushed: the count was returned and no store is left
C21_FlushedEveryKey ==
  \E session_id \in SessionIds :
    /\ reply.tool = "flush"
    /\ reply.session_id = session_id
    /\ reply.count = <<MaxKeys>>
    /\ session_stores[session_id] = <<>>
    /\ active_sessions[session_id] = <<>>

\* C22: peek_context returns one of three results. When the store holds the key: a hit
\* with the value and index of its slot and no status, a promise pending under the same
\* id or not. Otherwise, when a promise is registered under the key and not resolved: a
\* hit with status pending and the key as promise id. Otherwise a miss, a resolved
\* promise under the key included.
C22_PeekPriority ==
  [][\A session_id \in SessionIds, key \in Keys :
       (reply'.tool = "peek" /\ reply'.session_id = session_id /\ reply'.key = key) =>
         LET slots == IF session_stores[session_id] = <<>> THEN <<>>
                      ELSE session_stores[session_id][1].slots
             held == {i \in 1..Len(slots) : slots[i].key = key}
             pending == promises[key] # <<>> /\ promises[key][1].status = "pending"
         IN IF held # {}
            THEN \E i \in held :
                   reply' = Reply("peek", session_id, key, <<>>, TRUE, "",
                                  <<slots[i].value>>, <<slots[i].index>>, <<>>)
            ELSE IF pending
            THEN reply' = Reply("peek", session_id, key, <<>>, TRUE, "pending", <<>>, <<>>,
                                <<>>)
            ELSE reply' = Reply("peek", session_id, key, <<>>, FALSE, "", <<>>, <<>>,
                                <<>>)]_vars
\* a peek has hit the store for a key under which a promise is pending
C22_HitBesidePendingPromise ==
  \E key \in Keys :
    /\ reply.tool = "peek"
    /\ reply.key = key
    /\ reply.hit
    /\ reply.status = ""
    /\ reply.value # <<>>
    /\ promises[key] # <<>>
    /\ promises[key][1].status = "pending"

\* the slots of the session's store, none without a store
silo_slots(stores, session_id) ==
  IF stores[session_id] = <<>> THEN <<>> ELSE stores[session_id][1].slots

\* C23: a peek, whatever it returns, leaves the slots of every session (keys, values,
\* indices and their number) and every promise as they were, and the same peek made
\* again returns the same.
C23_PeekNonDestructive ==
  [][reply'.tool = "peek" =>
       /\ \A session_id \in SessionIds :
            silo_slots(session_stores', session_id) = silo_slots(session_stores, session_id)
       /\ promises' = promises
       /\ reply' = peek_now(session_stores', promises', reply'.session_id, reply'.key)]_vars
\* a peek has found a promise pending in a session that holds another key
C23_PendingBesideStoredKey ==
  \E session_id \in SessionIds :
    /\ reply.tool = "peek"
    /\ reply.session_id = session_id
    /\ reply.status = "pending"
    /\ stored_keys(session_stores, session_id) = 1
    /\ promises[reply.key] # <<>>

\* C24, as it is stated: the number of keys in the store of a session never exceeds the
\* silo_size of the store, the one given to init or the default.  PMMemoryStore.set
\* allocates a slot for every new key and never reads silo_size.
C24_SiloSizeBoundsKeys ==
  \A session_id \in SessionIds :
    session_stores[session_id] # <<>> =>
      Len(session_stores[session_id][1].slots) <= session_stores[session_id][1].silo_size

\* C25, as it is stated: an init of a session that was initialised before resets its silo,
\* so that the peek tool misses afterwards every key the session held.  init takes the
\* store get_store finds and sets its silo_size; the slots stay.
C25_InitResetsSilo ==
  [][\A session_id \in SessionIds :
       (reply'.tool = "init" /\ reply'.session_id = session_id
          /\ active_sessions[session_id] # <<>>) =>
         \A key \in Keys :
           ~peek_now(session_stores', promises', session_id, key).hit]_vars

\* ------------------------------------------------ the memory controller's properties
\* a thread returns from process_promises: it leaves the second block
returning(t) == processing[t] # <<>> /\ processing'[t] = <<>>

\* C26: a write appends its promise to the queue and leaves the pool as it is, and so does
\* every step but the return of a process_promises. A process_promises reads the time once
\* for each promise of the queue it took, in the order of the queue, and leaves in each slot
\* of the pool the data of the last promise that had not expired when it was read and
\* whose pid mod pool_size is the slot, and what the slot held when the queue it took has no
\* such promise. read_slot returns what the slot holds, and None for a slot outside
\* 0..pool_size-1.
C26_WriteQueuesProcessStores ==
  [][/\ written' # written =>
          /\ promise_queue' = Append(promise_queue, written'[Len(written')])
          /\ written' = Append(written, written'[Len(written')])
          /\ answer'.call = "write"
     /\ (\A t \in Threads : ~returning(t)) => pool' = pool
     /\ \A t \in Threads :
          returning(t) =>
            LET queue == processing[t][1]
                times == answer'.given
            IN /\ answer'.call = "process_promises"
               /\ Len(times) = Len(queue)
               /\ \A i \in 1..Len(times) :
                    /\ clock <= times[i] /\ times[i] <= clock'
                    /\ \A j \in 1..i : times[j] <= times[i]
               /\ \A slot \in 0..(pool_size - 1) :
                    LET stored == {i \in 1..Len(queue) :
                                     /\ ~expired(queue[i], times[i])
                                     /\ queue[i].pid % pool_size = slot}
                    IN IF stored = {}
                       THEN pool'[slot + 1] = pool[slot + 1]
                       ELSE \E i \in stored :
                              /\ \A j \in stored : j <= i
                              /\ pool'[slot + 1] = <<queue[i].data>>
     /\ (clock' = clock /\ answer'.call = "read_slot") =>
          \E slot \in SlotsRead :
            /\ answer'.given = <<slot>>
            /\ answer'.data = IF slot \in 0..(pool_size - 1) THEN pool[slot + 1]
                               ELSE <<>>]_vars
\* one process_promises has stored two promises of different pids and the same slot, and
\* the slot holds the data of the second
C26_TwoPromisesOneSlot ==
  /\ answer.call = "process_promises"
  /\ answer.committed = <<2>>
  /\ Len(written) = 2
  /\ written[1].pid # written[2].pid
  /\ written[1].pid % pool_size = written[2].pid % pool_size
  /\ pool[(written[2].pid % pool_size) + 1] = <<written[2].data>>

\* the promises of a queue whose ttl_s had run out at the time each was read
run_out(queue, times) ==
  {i \in 1..Len(queue) :
     queue[i].ttl_s # <<>> /\ times[i] - queue[i].created_ts >= queue[i].ttl_s[1]}

\* C27: process_promises takes the whole queue and leaves it empty, and its return leaves
\* the queue as it finds it; it returns the number of promises it took that had not
\* expired when it read them, and a slot it changes holds the data of one of those.
\* Having taken an empty queue it returns 0 and leaves the pool. The queue grows by a
\* write only, so a promise that was dropped is never met again; the data of a promise
\* written with ttl_s 0 is never in the pool.
C27_ExpiredDropped ==
  [][/\ \A t \in Threads :
          /\ (processing[t] = <<>> /\ processing'[t] # <<>>) => promise_queue' = <<>>
          /\ returning(t) =>
               LET queue == processing[t][1]
                   live == (1..Len(queue)) \ run_out(queue, answer'.given)
               IN /\ answer'.committed = <<Cardinality(live)>>
                  /\ returned' = returned + Cardinality(live)
                  /\ promise_queue' = promise_queue
                  /\ \A slot \in 1..pool_size :
                       pool'[slot] # pool[slot] =>
                         \E i \in live : pool'[slot] = <<queue[i].data>>
                  /\ queue = <<>> => (answer'.committed = <<0>> /\ pool' = pool)
     /\ (promise_queue' # promise_queue /\ promise_queue' # <<>>) => written' # written
     /\ \A i \in 1..Len(written') :
          written'[i].ttl_s = <<0>> =>
            \A slot \in 1..pool_size : pool'[slot] # <<written'[i].data>>]_vars
\* a promise was written, its ttl_s ran out, a promise that lasts was written for the same
\* slot, and the one process_promises that has stored anything stored the second only
C27_OneOfTwoStored ==
  /\ answer.call = "process_promises"
  /\ answer.committed = <<1>>
  /\ returned = 1
  /\ promise_queue = <<>>
  /\ Len(written) = 2
  /\ written[1].ttl_s = <<1>>
  /\ written[1].created_ts = 0
  /\ clock = 1
  /\ written[2].ttl_s = <<>>
  /\ written[1].pid = written[2].pid
  /\ pool[(written[2].pid % pool_size) + 1] = <<written[2].data>>

\* the promises of a sequence that never expire, and those that may be live at some time
lasting(queue) == Cardinality({i \in 1..Len(queue) : queue[i].ttl_s = <<>>})
maybe_live(queue) == Cardinality({i \in 1..Len(queue) : queue[i].ttl_s # <<0>>})
\* the queues the threads inside process_promises hold, one after another
held_queues ==
  LET t1 == CHOOSE t \in Threads : TRUE
      rest == Threads \ {t1}
      t2 == CHOOSE t \in rest : TRUE
      of(t) == IF processing[t] = <<>> THEN <<>> ELSE processing[t][1]
  IN of(t1) \o of(t2)

\* C28: whatever the interleaving of write and process_promises on several threads, a
\* promise written is at one place only: in the queue, in the queue one thread has taken,
\* or behind (stored and counted, or dropped as expired). A thread takes the whole queue
\* and leaves it empty; when it returns, the sum of the counts returned has grown by the
\* number of promises it took that had not expired when it read them. So the sum never falls short of the
\* promises that cannot expire, never exceeds those that may be live, and with nothing
\* queued or held it lies between the two.
C28_EveryPromiseOnce ==
  [][/\ LET waiting == promise_queue' \o held_queues'
            behind == Len(written') - Len(waiting)
        IN /\ \A i \in 1..Len(written') :
                Cardinality({j \in 1..Len(waiting) : waiting[j] = written'[i]}) <= 1
           /\ \A j \in 1..Len(waiting) : \E i \in 1..Len(written') : waiting[j] = written'[i]
           /\ returned' + lasting(waiting) >= lasting(written')
           /\ returned' + maybe_live(waiting) <= maybe_live(written')
           /\ returned' <= behind
     /\ \A t \in Threads :
          /\ (processing[t] = <<>> /\ processing'[t] # <<>>) =>
               (processing'[t] = <<promise_queue>> /\ promise_queue' = <<>>)
          /\ returning(t) =>
               /\ returned' = returned + Len(processing[t][1])
                                - Cardinality(run_out(processing[t][1], answer'.given))
               /\ answer'.committed = <<returned' - returned>>]_vars
\* a thread holds the promise it took while another thread has taken, stored and counted
\* a promise written later
C28_OvertakenWhileHolding ==
  \E t \in Threads, u \in Threads :
    /\ t # u
    /\ processing[t] # <<>>
    /\ Len(processing[t][1]) = 1
    /\ processing[u] = <<>>
    /\ answer.call = "process_promises"
    /\ answer.thread = u
    /\ answer.committed = <<1>>
    /\ returned = 1
    /\ promise_queue = <<>>
    /\ Len(written) = 2
\* ------------------------------------------------------- the properties of ppm publish
\* the registry and the token that the sources of the call determine, empty when none does
no_registry ==
  /\ publish_args.flag_registry = ""
  /\ publish_args.env_registry = ""
  /\ publish_args.toml_registry = ""
no_token == publish_args.flag_token = "" /\ publish_args.env_token = ""
wheel_files == {f \in publish_args.wheelhouse : f \in DotWhl}

\* C29: once ppm publish has started, a call with no registry URL in --registry,
\* PPM_REGISTRY_URL and [tool.ppm] registry, or with no token in --token and
\* PPM_REGISTRY_TOKEN, has exited with a non-zero status and made no upload; a call with
\* both (the registry being the first of its sources that has one, the token likewise) and
\* no .whl file in the wheelhouse has exited with status 0 and made no upload.
C29_PublishNeedsRegistryAndToken ==
  publish.pc # "idle" =>
    /\ no_registry \/ no_token =>
          /\ publish.pc = "exited"
          /\ publish.uploads = <<>>
          /\ publish.exit # <<>>
          /\ publish.exit # <<0>>
    /\ ~no_registry /\ ~no_token =>
          /\ publish_args.flag_registry # "" => publish.registry = publish_args.flag_registry
          /\ publish_args.flag_registry = "" /\ publish_args.env_registry # "" =>
                publish.registry = publish_args.env_registry
          /\ publish_args.flag_registry = "" /\ publish_args.env_registry = "" =>
                publish.registry = publish_args.toml_registry
          /\ publish_args.flag_token # "" => publish.token = publish_args.flag_token
          /\ publish_args.flag_token = "" => publish.token = publish_args.env_token
    /\ ~no_registry /\ ~no_token /\ wheel_files = {} =>
          /\ publish.pc = "exited"
          /\ publish.uploads = <<>>
          /\ publish.exit = <<0>>

\* ppm publish has exited with status 0 on a registry that only PPM.toml names, a token
\* that only the environment holds, and a wheelhouse whose only file is not a wheel
C29_TomlRegistryNoWheel ==
  /\ publish.pc = "exited"
  /\ publish.exit = <<0>>
  /\ publish.uploads = <<>>
  /\ publish_args.flag_registry = ""
  /\ publish_args.env_registry = ""
  /\ publish.registry = "Rt"
  /\ publish_args.flag_token = ""
  /\ publish.token = "Te"
  /\ publish_args.wheelhouse = {FileOrder[3]}

\* C30: when ppm publish has exited after finding wheels, it has attempted one upload
\* for every .whl file of the wheelhouse, in sorted order, whatever the earlier uploads
\* came to; ok_count + fail_count is the number of wheels; and the exit status is
\* non-zero exactly when an upload failed.
C30_OneUploadPerWheel ==
  publish.pc = "exited" /\ wheel_files # {} /\ ~no_registry /\ ~no_token =>
    /\ Len(publish.uploads) = Cardinality(wheel_files)
    /\ \A f \in wheel_files : \E i \in 1..Len(publish.uploads) : publish.uploads[i].file = f
    /\ \A i, j \in 1..Len(publish.uploads) :
          i < j =>
            \E a, b \in 1..Len(FileOrder) :
              /\ a < b
              /\ FileOrder[a] = publish.uploads[i].file
              /\ FileOrder[b] = publish.uploads[j].file
    /\ publish.ok_count + publish.fail_count = Cardinality(wheel_files)
    /\ publish.exit # <<>>
    /\ publish.exit # <<0>> <=> \E i \in 1..Len(publish.uploads) : publish.uploads[i].outcome # "ok"

\* ------------------------------------------------------ the resolver: further properties
\* the place of an extension in ExtOrder
ext_rank(ext) == CHOOSE i \in 1..Len(ExtOrder) : ExtOrder[i] = ext

\* C31: when the artifact selected is an sdist, no sdist of the same version among the
\* candidates gathered has a lesser filename, whatever the order of the anchors and
\* the index that listed each.
C31_LeastSdistChosen ==
  Running /\ top.pc = "download" /\ ~top.chosen[1].is_wheel =>
    \A i \in 1..Len(top.candidates) :
      /\ ~top.candidates[i].is_wheel
      /\ top.candidates[i].version = top.chosen[1].version
      => ext_rank(top.chosen[1].filename.ext) <= ext_rank(top.candidates[i].filename.ext)

\* C32: when the indexes list nothing for a requirement that only a Requires-Dist line
\* introduced (_resolve_one called from the loop over the lines of a wheel, for a name
\* no direct requirement has), the pass is not ended: it is still running after the
\* listing step.
C32_TransitiveMissAbsorbed ==
  [][(/\ Running
      /\ Len(stack) > 1
      /\ top.pc = "gather"
      /\ canonicalize_name(top.req.name) \notin DirectNames
      /\ \A k \in 1..Len(fetched') : fetched'[k].anchors = <<>>)
     => outcome' = "running"
    ]_vars

\* the calls of _resolve_one for the canonical name n that are past lines 831-836
working(frames, n) ==
  {k \in 1..Len(frames) :
     frames[k].pc # "enter" /\ canonicalize_name(frames[k].req.name) = n}

\* C33: within a pass the seen set only grows, and for every canonical name: at most
\* one call of _resolve_one is past its entry; a call passes its entry only for a name
\* that is neither seen nor resolved, and the name is seen from then on; the listing
\* step is taken only by such a call, and a call that has listed, selected or downloaded
\* never returns to an earlier step.  So a name is seen, listed, selected and
\* downloaded at most once, however many requirements and lines name it.
C33_NameEntersOnce ==
  [][/\ seen \subseteq seen'
     /\ \A n \in Names :
          /\ Cardinality(working(stack', n)) <= 1
          /\ working(stack, n) = {} /\ working(stack', n) # {} =>
                /\ n \notin seen
                /\ n \notin ResolvedNames
                /\ n \in seen'
                /\ stack'[Len(stack')].pc = "gather"
          /\ \A k \in working(stack, n) \cap working(stack', n) :
                /\ stack'[k].pc = "gather" => stack[k].pc = "gather"
                /\ stack'[k].pc = "select" => stack[k].pc \in {"gather", "select"}
                /\ stack'[k].pc = "download" => stack[k].pc \in {"select", "download"}
                /\ stack[k].pc = "gather" /\ stack'[k] # stack[k] => stack'[k].pc = "select"
    ]_vars

\* C33 witness: a pass over the requirements a and A, in either order, has ended with
\* a, b and c locked once each after reading lines that name a under both spellings as
\* well as b and c
C33_NamedTwiceLockedOnce ==
  /\ outcome = "ok"
  /\ Len(lock) = 3
  /\ requirements[1].name # requirements[2].name
  /\ {r.name : r \in read} = RawNames

\* C34: whenever _resolve_one is entered for a name that is in the seen set, the name
\* is in the resolved map, and no run ends with the error of line 836.
C34_SeenAtEntryIsResolved ==
  /\ outcome # "cyclic or repeated requirement detected"
  /\ \A k \in 1..Len(stack) :
       stack[k].pc = "enter" /\ canonicalize_name(stack[k].req.name) \in seen
         => canonicalize_name(stack[k].req.name) \in ResolvedNames

\* C34 witness: _resolve_one is entered for the second direct requirement, which names
\* the project of the first under the other spelling, after a pass through a cycle: a
\* line naming that project was read from a wheel further down (the loop over the
\* lines skips a resolved name, so only resolve_all enters for a seen name)
C34_EnteredForRepeatedRequirement ==
  /\ Running
  /\ ri = 2
  /\ top.pc = "enter"
  /\ requirements[1].name # requirements[2].name
  /\ canonicalize_name(top.req.name) \in seen
  /\ Len(resolved) > 1
  /\ \E r \in read : canonicalize_name(r.name) = canonicalize_name(top.req.name)

\* the steps of one call of _resolve_one in their order; listing and classification
\* are the one step of _gather_candidates
step_order == <<"enter", "gather", "select", "download", "commit", "expand">>
step_rank(pc) == CHOOSE i \in 1..Len(step_order) : step_order[i] = pc

\* C35: a call of _resolve_one stays in its step or moves to the next one, never back
\* and never past one; it returns while the pass runs only from its entry (the name is
\* resolved), from the commit, or from the loop over the lines; the resolved map grows
\* only by the package of the call that is at its commit, whose file is downloaded and
\* digested; a call is in the loop over the lines only with its package in the map;
\* and a step that fails empties the stack, commits nothing, and is the last step of
\* the pass: no further requirement is taken.
C35_ForwardOnly ==
  [][/\ \A k \in 1..Len(stack) :
          k <= Len(stack') =>
            /\ stack'[k].req = stack[k].req
            /\ step_rank(stack'[k].pc) \in {step_rank(stack[k].pc), step_rank(stack[k].pc) + 1}
     /\ Len(stack') < Len(stack) /\ outcome' = "running" =>
          /\ Len(stack') = Len(stack) - 1
          /\ top.pc \in {"enter", "commit", "expand"}
     /\ Len(stack') > Len(stack) =>
          /\ Len(stack') = Len(stack) + 1
          /\ stack'[Len(stack')].pc = "enter"
          /\ stack # <<>> => stack'[Len(stack)].pc = "expand"
     /\ resolved' # resolved =>
          /\ Running /\ top.pc = "commit"
          /\ top.chosen[1].url.file \in CachedFiles
          /\ top.digest = sha256_file(BytesOf(top.chosen[1].url.file))
          /\ Len(resolved') = Len(resolved) + 1
          /\ SubSeq(resolved', 1, Len(resolved)) = resolved
          /\ resolved'[Len(resolved')].name = canonicalize_name(top.req.name)
     /\ \A k \in 1..Len(stack') :
          stack'[k].pc = "expand" =>
            canonicalize_name(stack'[k].req.name) \in {resolved'[j].name : j \in 1..Len(resolved')}
     /\ outcome \notin {"running", "ok"} => FALSE
     /\ outcome' \notin {"running", "ok"} =>
          /\ stack' = <<>>
          /\ ri' = ri
          /\ resolved' = resolved
          /\ lock' = lock
    ]_vars

\* C35 witness: the download of a dependency has failed after the package that
\* requires it was committed; the pass has ended with the second direct requirement
\* not taken
C35_FailedBeforeSecondRequirement ==
  /\ outcome = "download failed"
  /\ ri = 1
  /\ Len(requirements) = 2
  /\ Len(resolved) = 1
  /\ stack = <<>>

\* C36: after a successful pass the cache directory holds, for every artifact of the
\* lock, a file under the artifact's recorded filename.
C36_LockedFileInCache ==
  outcome = "ok" => \A a \in LockedArtifacts(lock) : a.filename \in CachedFiles

\* C37: strict_hash decides nothing.  Once _download has returned the digest is not
\* empty; the step after it commits the package with a non-empty sha256 and leaves the
\* pass running whether strict_hash is set or not; and no pass ends with the error of
\* line 860.
C37_StrictHashNeverDecides ==
  [][/\ outcome' # "Strict hash enabled"
     /\ \A k \in 1..Len(stack') : stack'[k].pc = "commit" => stack'[k].digest # ""
     /\ Running /\ top.pc = "commit" =>
          /\ outcome' = "running"
          /\ Len(resolved') = Len(resolved) + 1
          /\ resolved'[Len(resolved')].name = canonicalize_name(top.req.name)
          /\ resolved'[Len(resolved')].version = top.chosen[1].version
          /\ resolved'[Len(resolved')].artifacts[1].sha256 =
               (IF top.chosen[1].sha256 # "" THEN top.chosen[1].sha256 ELSE top.digest)
          /\ resolved'[Len(resolved')].artifacts[1].sha256 # ""
    ]_vars

\* C37 witness: with strict_hash set, a pass has ended with an artifact locked whose
\* anchor carried no sha256: the digest locked is the one computed from the file
C37_StrictPassWithoutHint ==
  /\ strict_hash
  /\ outcome = "ok"
  /\ \E a \in LockedArtifacts(lock) :
       /\ parse_artifact_hash_from_href(a.url) = None
       /\ a.sha256 = sha256_file(BytesOf(a.url.file))

\* ------------------------------------------- the memory controller and clear
\* C38: clear is atomic with respect to process_promises.  When the last call to have
\* returned is clear (the pool and the queue are empty and every write made so far
\* returned before it), a process_promises that returns next stores nothing: either
\* it is ordered before that clear, which then empties the pool, or after it, when
\* nothing is queued.
C38_ClearIsAtomic ==
  [][(answer.call = "clear" /\ answer'.call = "process_promises")
     => pool' = [i \in 1..pool_size |-> <<>>]
    ]_vars

\* ------------------------------------------------ the promises of the memory server
\* the names the five tools of the server reply under
ServerTools == {"init", "peek", "set", "resolve", "flush"}

\* C39: a call of one of the five tools leaves the registry of promises as it was; and
\* the resolve tool replies resolved with the payload when the promise is resolved in
\* the registry, and pending with no payload when it is registered and unresolved or
\* not registered.
C39_ResolveToolReadsOnly ==
  [][reply'.tool \in ServerTools =>
       /\ promises' = promises
       /\ reply'.tool = "resolve" =>
            LET entry == promises[reply'.key]
            IN IF entry # <<>> /\ entry[1].status = "resolved"
               THEN reply'.status = "resolved" /\ reply'.value = entry[1].payload
               ELSE reply'.status = "pending" /\ reply'.value = <<>>
    ]_vars

\* C39 witness: the resolve tool has replied resolved with the payload the registry
\* holds, for an id that is also a key stored in the initialised session of the caller
C39_ResolvedReadBesideStoredKey ==
  /\ reply.tool = "resolve"
  /\ reply.status = "resolved"
  /\ reply.value # <<>>
  /\ promises[reply.key] = <<[status |-> "resolved", payload |-> reply.value]>>
  /\ active_sessions[reply.session_id] # <<>>
  /\ silo_peek(session_stores, reply.session_id, reply.key).hit

\* C40: every entry of the registry is pending with no payload or resolved with one.
\* QPromiseRegistry.resolve on an unknown id returns False and changes nothing; on a
\* known id it returns True and leaves that entry resolved with the payload given, the
\* other entries as they were.  register leaves its id pending with no payload, the
\* other entries as they were.  An entry changes only by register or resolve on its
\* id, and a resolved one becomes pending only by register on its id.
C40_PromiseLifecycle ==
  [][/\ \A q \in Keys :
          /\ promises'[q] # <<>> =>
                \/ promises'[q][1].status = "pending" /\ promises'[q][1].payload = <<>>
                \/ promises'[q][1].status = "resolved" /\ promises'[q][1].payload # <<>>
          /\ promises'[q] # promises[q] =>
                /\ reply'.key = q
                /\ reply'.tool \in {"QPromiseRegistry.register", "QPromiseRegistry.resolve"}
          /\ (/\ promises[q] # <<>>
              /\ promises[q][1].status = "resolved"
              /\ promises'[q] # <<>>
              /\ promises'[q][1].status = "pending")
             => reply'.tool = "QPromiseRegistry.register"
          /\ promises[q] # <<>> => promises'[q] # <<>>
     /\ reply'.tool = "QPromiseRegistry.resolve" =>
          IF promises[reply'.key] = <<>>
          THEN ~reply'.hit /\ promises' = promises
          ELSE /\ reply'.hit
               /\ promises'[reply'.key] = <<[status |-> "resolved", payload |-> reply'.arg]>>
     /\ reply'.tool = "QPromiseRegistry.register" =>
          promises'[reply'.key] = <<[status |-> "pending", payload |-> <<>>]>>
    ]_vars

\* C40 witness: resolve has returned False for an id that is not registered, beside a
\* promise that stays resolved with its payload
C40_UnknownIdBesideResolved ==
  /\ reply.tool = "QPromiseRegistry.resolve"
  /\ ~reply.hit
  /\ promises[reply.key] = <<>>
  /\ \E q \in Keys : promises[q] # <<>> /\ promises[q][1].status = "resolved"

====
